---- MODULE Spec2Model ----
(***************************************************************************)
(* cicdez: deployment of a compose project as a swarm stack.               *)
(*                                                                         *)
(* The model covers internal/docker: the materializer (processLocalConfigs,*)
(* processSensitiveSecrets), the converter (ConvertNetworks, ConvertSecrets,*)
(* ConvertConfigs, ConvertServices) and the reconciler (Deploy and its     *)
(* steps).  Every call on the cluster client is one atomic step of a       *)
(* deployer; the cluster is shared by the deployers.                       *)
(***************************************************************************)
EXTENDS Integers, Sequences, FiniteSets, TLC

(***************************************************************************)
(* Bounds of the model.                                                    *)
(***************************************************************************)
\* Deploy runs a deployer performs one after the other.
MaxRuns == 1
\* Repetitions of a Deploy run with the same manifest and options.
MaxRedeploys == 1
\* Cluster calls that may return an error, over a whole behaviour.
MaxFaults == 1
\* ServiceInspect polls of one waitOnServices call.
MaxPolls == 3
\* The largest task count a service status reports.
MaxTasks == 1
\* Secrets one sensitive entry lists.
MaxNeeded == 2
\* Capabilities in a cap_add or cap_drop list.
MaxCaps == 2

Deployers == {1, 2}

(***************************************************************************)
(* Strings that the code takes apart are sequences of characters.          *)
(***************************************************************************)
Digits == {"0", "1", "2", "3", "4", "5", "6", "7", "8", "9"}

DigitVal(c) ==
    CASE c = "0" -> 0 [] c = "1" -> 1 [] c = "2" -> 2 [] c = "3" -> 3
      [] c = "4" -> 4 [] c = "5" -> 5 [] c = "6" -> 6 [] c = "7" -> 7
      [] c = "8" -> 8 [] c = "9" -> 9

\* strings.Cut(s, ":"): the text before the first ":", the text after it,
\* and whether a ":" was found.
CutColon(s) ==
    LET idx == {i \in 1..Len(s) : s[i] = ":"}
    IN  IF idx = {}
        THEN [before |-> s, after |-> <<>>, found |-> FALSE]
        ELSE LET i == CHOOSE j \in idx : \A k \in idx : j <= k
             IN  [before |-> SubSeq(s, 1, i - 1),
                  after  |-> SubSeq(s, i + 1, Len(s)),
                  found  |-> TRUE]

\* strconv.ParseUint(s, 10, 64): ok iff s is a non-empty run of digits
\* (the values of the model stay far below 2^64).
RECURSIVE UintValue(_)
UintValue(s) ==
    IF s = <<>> THEN 0
    ELSE 10 * UintValue(SubSeq(s, 1, Len(s) - 1)) + DigitVal(s[Len(s)])

ParseUint(s) ==
    IF s # <<>> /\ \A i \in 1..Len(s) : s[i] \in Digits
    THEN [ok |-> TRUE, value |-> UintValue(s)]
    ELSE [ok |-> FALSE, value |-> 0]

RestartNone      == <<>>
RestartNo        == <<"n", "o">>
RestartAlways    == <<"a", "l", "w", "a", "y", "s">>
RestartUnless    == <<"u", "n", "l", "e", "s", "s", "-", "s", "t", "o", "p", "p", "e", "d">>
RestartOnFailure == <<"o", "n", "-", "f", "a", "i", "l", "u", "r", "e">>
RestartOnFail3   == RestartOnFailure \o <<":", "3">>
RestartOnFailX   == RestartOnFailure \o <<":", "x">>
RestartBogus     == <<"s", "o", "m", "e", "t", "i", "m", "e", "s">>

(***************************************************************************)
(* Constants of the converter.                                             *)
(***************************************************************************)
LabelNamespace == "com.docker.stack.namespace"
LabelImage == "com.docker.stack.image"
DefaultNetworkDriver == "overlay"

ResolveImageAlways == "always"
ResolveImageChanged == "changed"
ResolveImageNever == "never"

ScopeName(stack, name) == stack \o "_" \o name

\* container.NetworkMode(n).IsUserDefined() for the names of the model (no
\* "container:<id>" mode occurs in them).
IsUserDefined(n) == n \notin {"default", "bridge", "host", "none"}

\* A variant that keeps the value the manifest gives for the namespace label.
AddStackLabelKeep(stack, labels) ==
    [k \in DOMAIN labels \cup {LabelNamespace} |->
        IF k \in DOMAIN labels THEN labels[k] ELSE stack]

\* maps.Copy(result, labels); result[LabelNamespace] = stack
AddStackLabel(stack, labels) ==
    [k \in DOMAIN labels \cup {LabelNamespace} |->
        IF k = LabelNamespace THEN stack ELSE labels[k]]

EmptyMap == [k \in {} |-> TRUE]


(***************************************************************************)
(* The entity model (compose-go types.Project), as far as Deploy reads it. *)
(***************************************************************************)
Stack == "demo"
OtherStack == "other"

NoHealthCheck == [Present |-> FALSE, Disable |-> FALSE, TestLen |-> 0]
NoDeploy == [Present |-> FALSE, Mode |-> "", HasReplicas |-> FALSE,
             HasRestartPolicy |-> FALSE, Labels |-> EmptyMap]

\* types.ServiceConfig
Service(name, image) ==
    [Name |-> name, Image |-> image,
     Networks |-> {}, Secrets |-> {}, Configs |-> {}, Volumes |-> {},
     HealthCheck |-> NoHealthCheck, Deploy |-> NoDeploy,
     Restart |-> RestartNone,
     Sensitive |-> EmptyMap, LocalConfigs |-> EmptyMap]

\* types.NetworkConfig, types.VolumeConfig
Resource(name, external) == [Name |-> name, External |-> external, Labels |-> EmptyMap]
\* types.SecretConfig, types.ConfigObjConfig
Object(name, external, content) ==
    [Name |-> name, External |-> external, Content |-> content, Labels |-> EmptyMap]

\* types.SensitiveConfig: Secrets is a sequence of [Source, Name].
Sensitive(format, secrets) == [Format |-> format, Secrets |-> secrets, Target |-> ""]

EmptyProject ==
    [Services |-> EmptyMap, Networks |-> EmptyMap, Secrets |-> EmptyMap,
     Configs |-> EmptyMap, Volumes |-> EmptyMap]

\* The encrypted store of the working directory (vault.Secrets.Values).
VaultValues == ("db_password" :> "secret123") @@ ("api_key" :> "hunter2")

\* The files of the working directory that local configs name.
Files == ("nginx.conf" :> "listen 80;")

(***************************************************************************)
(* Content materializer.                                                   *)
(***************************************************************************)
SecretOutputEnv == "env"
SecretOutputJSON == "json"
SecretOutputRaw == "raw"

\* hex(sha256(content))[:8] for the contents the model can produce.
Sha256Hex8(content) ==
    CASE content = "secret123" -> "fcf730b6"
      [] content = "hunter2" -> "f52fbd32"
      [] content = "listen 80;" -> "88a2aab1"
      [] content = "DB_PASSWORD=secret123\n" -> "4f2e8931"
      [] content = "token-6170" -> "76bed803"
      [] content = "token-44637" -> "76bed803"

\* A variant whose suffix does not depend on the content.
hashedNameFixed(name, content) == name \o "_" \o "00000000"

hashedName(name, content) == name \o "_" \o Sha256Hex8(content)

\* The picked map of FormatSecretsForSensitive: output name -> value; a later
\* entry of needed overwrites an earlier one of the same output name.
OutputName(s) == IF s.Name = "" THEN s.Source ELSE s.Name

Picked(values, needed) ==
    [k \in {OutputName(needed[i]) : i \in 1..Len(needed)} |->
        LET last == CHOOSE i \in 1..Len(needed) :
                        /\ OutputName(needed[i]) = k
                        /\ \A j \in 1..Len(needed) : OutputName(needed[j]) = k => j <= i
        IN  values[needed[last].Source]]

\* vault.FormatEnv for a picked map of one key (the manifests of the model
\* list at most one secret under the env format).
FormatEnv(picked) ==
    LET k == CHOOSE x \in DOMAIN picked : TRUE
    IN  k \o "=" \o picked[k] \o "\n"

FormatRaw(value) == value

FormatSecretsForSensitive(values, needed, format) ==
    IF Len(needed) = 0 THEN [err |-> "no secrets specified", content |-> ""]
    ELSE IF \E i \in 1..Len(needed) : needed[i].Source \notin DOMAIN values
    THEN [err |-> "secret not found in cicdez secrets", content |-> ""]
    ELSE LET picked == Picked(values, needed)
         IN  CASE format \in {SecretOutputEnv, ""} ->
                    [err |-> "", content |-> FormatEnv(picked)]
               [] format = SecretOutputRaw ->
                    IF Cardinality(DOMAIN picked) # 1
                    THEN [err |-> "raw format requires exactly one secret", content |-> ""]
                    ELSE [err |-> "",
                          content |-> FormatRaw(picked[CHOOSE k \in DOMAIN picked : TRUE])]
               [] OTHER -> [err |-> "unknown format", content |-> ""]

\* One service after processLocalConfigs: every local config becomes a
\* reference to a config named by hashedName.
LocalConfigRefs(svc) ==
    {hashedName(n, Files[svc.LocalConfigs[n].Source]) : n \in DOMAIN svc.LocalConfigs}

LocalConfigsReadable(project) ==
    \A s \in DOMAIN project.Services :
        \A n \in DOMAIN project.Services[s].LocalConfigs :
            project.Services[s].LocalConfigs[n].Source \in DOMAIN Files

processLocalConfigs(project) ==
    IF ~LocalConfigsReadable(project)
    THEN [err |-> "failed to read local config file", project |-> project]
    ELSE LET gen == UNION {{[name |-> hashedName(n, Files[project.Services[s].LocalConfigs[n].Source]),
                             content |-> Files[project.Services[s].LocalConfigs[n].Source]] :
                                n \in DOMAIN project.Services[s].LocalConfigs} :
                           s \in DOMAIN project.Services}
             names == {g.name : g \in gen}
         IN  [err |-> "",
              project |->
                [project EXCEPT
                   !.Configs = [k \in DOMAIN project.Configs \cup names |->
                                  IF k \in names
                                  THEN Object("", FALSE, (CHOOSE g \in gen : g.name = k).content)
                                  ELSE project.Configs[k]],
                   !.Services = [s \in DOMAIN project.Services |->
                                  [project.Services[s] EXCEPT
                                     !.Configs = @ \cup LocalConfigRefs(project.Services[s])]]]]

SensitiveResult(svc, n) ==
    FormatSecretsForSensitive(VaultValues, svc.Sensitive[n].Secrets, svc.Sensitive[n].Format)

processSensitiveSecrets(project) ==
    IF \E s \in DOMAIN project.Services :
          \E n \in DOMAIN project.Services[s].Sensitive :
              SensitiveResult(project.Services[s], n).err # ""
    THEN [err |-> "failed to format sensitive secrets", project |-> project]
    ELSE LET gen == UNION {{[name |-> hashedName(n, SensitiveResult(project.Services[s], n).content),
                             content |-> SensitiveResult(project.Services[s], n).content] :
                                n \in DOMAIN project.Services[s].Sensitive} :
                           s \in DOMAIN project.Services}
             names == {g.name : g \in gen}
             refs(svc) == {hashedName(n, SensitiveResult(svc, n).content) : n \in DOMAIN svc.Sensitive}
         IN  [err |-> "",
              project |->
                [project EXCEPT
                   !.Secrets = [k \in DOMAIN project.Secrets \cup names |->
                                  IF k \in names
                                  THEN Object("", FALSE, (CHOOSE g \in gen : g.name = k).content)
                                  ELSE project.Secrets[k]],
                   !.Services = [s \in DOMAIN project.Services |->
                                  [project.Services[s] EXCEPT
                                     !.Secrets = @ \cup refs(project.Services[s])]]]]

(***************************************************************************)
(* Spec converter.                                                         *)
(***************************************************************************)
GetServicesDeclaredNetworks(services) ==
    UNION {IF services[s].Networks = {} THEN {"default"} ELSE services[s].Networks :
           s \in DOMAIN services}

\* The name under which ConvertNetworks lists a used network.
ExternalNetworkName(networks, n) == IF networks[n].Name = "" THEN n ELSE networks[n].Name
InternalNetworkName(stack, networks, n) ==
    IF networks[n].Name # "" THEN networks[n].Name ELSE ScopeName(stack, n)

\* ConvertNetworks: create |-> network name -> create options, external |-> names.
ConvertNetworks(stack, networks, serviceNetworks) ==
    LET used == {n \in DOMAIN networks : n \in serviceNetworks}
        int  == {n \in used : ~networks[n].External}
        ext  == {n \in used : networks[n].External}
        names == {InternalNetworkName(stack, networks, n) : n \in int}
    IN  [create |-> [nm \in names |->
                       LET n == CHOOSE x \in int : InternalNetworkName(stack, networks, x) = nm
                       IN  [Labels |-> AddStackLabel(stack, networks[n].Labels),
                            Driver |-> DefaultNetworkDriver]],
         external |-> {ExternalNetworkName(networks, n) : n \in ext}]

ObjectName(stack, objects, n) ==
    IF objects[n].Name # "" THEN objects[n].Name ELSE ScopeName(stack, n)

\* A variant that converts the external secrets too.
ConvertSecretsAll(stack, secrets) ==
    {[Name |-> IF secrets[n].Name # "" THEN secrets[n].Name ELSE stack \o "_" \o n,
      Labels |-> [k \in DOMAIN secrets[n].Labels \cup {LabelNamespace} |->
                    IF k = LabelNamespace THEN stack ELSE secrets[n].Labels[k]],
      Data |-> secrets[n].Content] : n \in DOMAIN secrets}

\* ConvertSecrets / ConvertConfigs: the specs of the objects that are not
\* external (none of the model's objects is read from a file or a driver).
ConvertSecrets(stack, secrets) ==
    {[Name |-> ObjectName(stack, secrets, n),
      Labels |-> AddStackLabel(stack, secrets[n].Labels),
      Data |-> secrets[n].Content] : n \in {x \in DOMAIN secrets : ~secrets[x].External}}

ConvertConfigs(stack, configs) ==
    {[Name |-> ObjectName(stack, configs, n),
      Labels |-> AddStackLabel(stack, configs[n].Labels),
      Data |-> configs[n].Content] : n \in {x \in DOMAIN configs : ~configs[x].External}}

convertHealthcheck(hc) ==
    IF hc.Present /\ hc.Disable /\ hc.TestLen # 0
    THEN "test and disable can't be set at the same time"
    ELSE ""

convertDeployMode(mode, hasReplicas) ==
    CASE mode \in {"global-job", "global"} ->
            IF hasReplicas
            THEN [err |-> "replicas can only be used with replicated or replicated-job mode", mode |-> ""]
            ELSE [err |-> "", mode |-> mode]
      [] mode = "replicated-job" -> [err |-> "", mode |-> mode]
      [] mode \in {"replicated", ""} -> [err |-> "", mode |-> "replicated"]
      [] OTHER -> [err |-> "unknown mode", mode |-> ""]

NoRestartPolicy == [Present |-> FALSE, Condition |-> "", HasMax |-> FALSE, MaxAttempts |-> 0]

convertRestartPolicy(restart, hasSource) ==
    IF ~hasSource
    THEN IF restart = RestartNone \/ restart = RestartNo
         THEN [err |-> "", policy |-> NoRestartPolicy]
         ELSE LET cut == CutColon(restart)
                  count == ParseUint(cut.after)
              IN  IF cut.after # <<>> /\ ~count.ok
                  THEN [err |-> "invalid restart policy", policy |-> NoRestartPolicy]
                  ELSE CASE cut.before \in {RestartAlways, RestartUnless} ->
                              [err |-> "",
                               policy |-> [Present |-> TRUE, Condition |-> "any",
                                           HasMax |-> FALSE, MaxAttempts |-> 0]]
                         [] cut.before = RestartOnFailure ->
                              [err |-> "",
                               policy |-> [Present |-> TRUE, Condition |-> "on-failure",
                                           HasMax |-> cut.after # <<>>,
                                           MaxAttempts |-> count.value]]
                         [] OTHER -> [err |-> "unknown restart policy", policy |-> NoRestartPolicy]
    ELSE [err |-> "",
          policy |-> [Present |-> TRUE, Condition |-> "structured",
                      HasMax |-> FALSE, MaxAttempts |-> 0]]

\* The name a service's secret (config) reference is looked up by.
RefName(stack, objects, src) ==
    IF objects[src].Name # "" THEN objects[src].Name
    ELSE IF objects[src].External THEN src
    ELSE ScopeName(stack, src)

\* The target of a service's attachment to a declared or default network.
AttachmentTarget(stack, networks, n) ==
    IF n \notin DOMAIN networks THEN ScopeName(stack, n)
    ELSE IF networks[n].External
         THEN (IF networks[n].Name = "" THEN n ELSE networks[n].Name)
         ELSE (IF networks[n].Name # "" THEN networks[n].Name ELSE ScopeName(stack, n))

\* convertVolumeToMount for named volumes: an undeclared source is an error.
UndefinedVolumes(svc, volumes) ==
    {v \in svc.Volumes : v \notin DOMAIN volumes}

\* convertService: err is "" on success; lookups are the names inspected in the
\* cluster; clSec and clCfg are the cluster's secrets and configs by name.
\* A variant that gives no ID.
lookupNoID(objects, name) == 0

\* lookupSecretID, lookupConfigID: the ID of the object the cluster holds
\* under the name.
lookupSecretID(clSec, name) == clSec[name].ID
lookupConfigID(clCfg, name) == clCfg[name].ID

convertService(stack, svc, networks, volumes, secrets, configs, clSec, clCfg) ==
    LET hcErr == convertHealthcheck(svc.HealthCheck)
        secNames == {RefName(stack, secrets, r) : r \in svc.Secrets \cap DOMAIN secrets}
        cfgNames == {RefName(stack, configs, r) : r \in svc.Configs \cap DOMAIN configs}
        mode == IF svc.Deploy.Present
                THEN convertDeployMode(svc.Deploy.Mode, svc.Deploy.HasReplicas)
                ELSE [err |-> "", mode |-> "replicated"]
        restart == IF svc.Deploy.Present
                   THEN convertRestartPolicy(svc.Restart, svc.Deploy.HasRestartPolicy)
                   ELSE [convertRestartPolicy(svc.Restart, FALSE) EXCEPT !.err = ""]
        err == CASE hcErr # "" -> hcErr
                 [] UndefinedVolumes(svc, volumes) # {} -> "undefined volume"
                 [] \E r \in svc.Secrets : r \notin DOMAIN secrets -> "secret not found"
                 [] \E n \in secNames : n \notin DOMAIN clSec -> "secret lookup failed"
                 [] \E r \in svc.Configs : r \notin DOMAIN configs -> "config not found"
                 [] \E n \in cfgNames : n \notin DOMAIN clCfg -> "config lookup failed"
                 [] \E n \in svc.Networks : n \notin DOMAIN networks /\ n # "default" ->
                        "undefined network"
                 [] mode.err # "" -> mode.err
                 [] restart.err # "" -> restart.err
                 [] OTHER -> ""
        reached == hcErr = "" /\ UndefinedVolumes(svc, volumes) = {}
    IN  [err |-> err,
         secretLookups |-> IF reached THEN secNames ELSE {},
         configLookups |-> IF reached /\ err \notin {"secret not found", "secret lookup failed"}
                           THEN cfgNames ELSE {},
         spec |->
           IF err # "" THEN [Name |-> ""]
           ELSE [Name |-> ScopeName(stack, svc.Name),
                 Labels |-> [k \in DOMAIN AddStackLabel(stack, svc.Deploy.Labels) \cup {LabelImage} |->
                               IF k = LabelImage THEN svc.Image
                               ELSE AddStackLabel(stack, svc.Deploy.Labels)[k]],
                 Image |-> svc.Image,
                 Secrets |-> {[SecretID |-> lookupSecretID(clSec, n), SecretName |-> n] : n \in secNames},
                 Configs |-> {[ConfigID |-> lookupConfigID(clCfg, n), ConfigName |-> n] : n \in cfgNames},
                 Networks |-> IF svc.Networks = {}
                              THEN {ScopeName(stack, "default")}
                              ELSE {AttachmentTarget(stack, networks, n) : n \in svc.Networks},
                 Mode |-> mode.mode,
                 RestartPolicy |-> restart.policy,
                 ForceUpdate |-> 0]]

(***************************************************************************)
(* The manifests the deployers are given.                                  *)
(***************************************************************************)
Web(image) == Service("web", image)

\* One service on the implicit default network.
ProjectWeb(image) == [EmptyProject EXCEPT !.Services = ("web" :> Web(image))]

\* Two services, an internal network, a secret and a config.
ProjectFull ==
    [EmptyProject EXCEPT
       !.Services = ("web" :> [Web("app:v1") EXCEPT !.Networks = {"back"},
                                                   !.Secrets = {"tok"},
                                                   !.Configs = {"cfg"}])
                 @@ ("db" :> [Service("db", "pg:16") EXCEPT !.Networks = {"back"}]),
       !.Networks = ("back" :> Resource("", FALSE)),
       !.Secrets = ("tok" :> Object("", FALSE, "hunter2")),
       !.Configs = ("cfg" :> Object("", FALSE, "listen 80;"))]

\* A service on an external network.
ProjectEdge ==
    [EmptyProject EXCEPT
       !.Services = ("web" :> [Web("app:v1") EXCEPT !.Networks = {"edge", "back", "hostnet"}]),
       !.Networks = ("edge" :> Resource("", TRUE)) @@ ("back" :> Resource("", FALSE))
                 @@ ("hostnet" :> Resource("host", TRUE))]

\* Materialized content: a sensitive entry and a local config.
ProjectSensitive ==
    [EmptyProject EXCEPT
       !.Services = ("web" :> [Web("app:v1") EXCEPT
                      !.Sensitive = ("cred" :> Sensitive(SecretOutputRaw,
                                         <<[Source |-> "db_password", Name |-> ""]>>)),
                      !.LocalConfigs = ("nginx" :> [Source |-> "nginx.conf"])])]

\* A sensitive entry naming a secret the store does not hold.
ProjectSensitiveMissing ==
    [EmptyProject EXCEPT
       !.Services = ("web" :> [Web("app:v1") EXCEPT
                      !.Sensitive = ("cred" :> Sensitive(SecretOutputRaw,
                                         <<[Source |-> "absent", Name |-> ""]>>))])]

\* ProjectFull with one configuration error in service web.
WithWeb(project, web) == [project EXCEPT !.Services = ("web" :> web) @@ project.Services]
FullWeb == ProjectFull.Services["web"]

ProjectBadSecret  == WithWeb(ProjectFull, [FullWeb EXCEPT !.Secrets = {"tok", "ghost"}])
ProjectBadConfig  == WithWeb(ProjectFull, [FullWeb EXCEPT !.Configs = {"ghost"}])
ProjectBadVolume  == WithWeb(ProjectFull, [FullWeb EXCEPT !.Volumes = {"data"}])
ProjectBadNetwork == WithWeb(ProjectFull, [FullWeb EXCEPT !.Networks = {"back", "ghost"}])
ProjectBadHealth  ==
    WithWeb(ProjectFull, [FullWeb EXCEPT !.HealthCheck =
                            [Present |-> TRUE, Disable |-> TRUE, TestLen |-> 1]])
ProjectBadMode ==
    WithWeb(ProjectFull, [FullWeb EXCEPT !.Deploy =
                            [NoDeploy EXCEPT !.Present = TRUE, !.Mode = "global",
                                             !.HasReplicas = TRUE]])
ProjectBadRestart ==
    WithWeb(ProjectFull, [FullWeb EXCEPT !.Deploy = [NoDeploy EXCEPT !.Present = TRUE],
                                         !.Restart = RestartOnFailX])
\* The same malformed shorthand on a service without a deploy section.
ProjectBadRestartNoDeploy ==
    WithWeb(ProjectFull, [FullWeb EXCEPT !.Restart = RestartBogus])

\* ProjectFull whose network, secret, config and service web each carry a
\* namespace label of their own, naming another stack.
ForeignLabels == (LabelNamespace :> OtherStack) @@ ("tier" :> "web")

ProjectLabelled ==
    [ProjectFull EXCEPT
       !.Services = ("web" :> [FullWeb EXCEPT
                                 !.Deploy = [NoDeploy EXCEPT !.Present = TRUE,
                                                             !.Labels = ForeignLabels]])
                    @@ ProjectFull.Services,
       !.Networks = ("back" :> [Resource("", FALSE) EXCEPT !.Labels = ForeignLabels]),
       !.Secrets = ("tok" :> [Object("", FALSE, "hunter2") EXCEPT !.Labels = ForeignLabels]),
       !.Configs = ("cfg" :> [Object("", FALSE, "listen 80;") EXCEPT !.Labels = ForeignLabels])]

ConfigErrorManifests ==
    {ProjectBadSecret, ProjectBadConfig, ProjectBadVolume, ProjectBadNetwork,
     ProjectBadHealth, ProjectBadMode, ProjectBadRestart, ProjectBadRestartNoDeploy}

Manifests ==
    {ProjectWeb("app:v1"), ProjectWeb("app:v2"), ProjectFull, ProjectEdge,
     ProjectSensitive, ProjectSensitiveMissing}

\* Service web on two external networks, one of them the host network, and an
\* internal network, with an external and an internal secret and an external
\* config that has an explicit name.
ProjectExternal ==
    [EmptyProject EXCEPT
       !.Services = ("web" :> [Web("app:v1") EXCEPT !.Networks = {"edge", "back", "hostnet"},
                                                   !.Secrets = {"ext_tok", "tok"},
                                                   !.Configs = {"ext_cfg"}]),
       !.Networks = ("edge" :> Resource("", TRUE)) @@ ("back" :> Resource("", FALSE))
                    @@ ("hostnet" :> Resource("host", TRUE)),
       !.Secrets = ("ext_tok" :> Object("", TRUE, "")) @@ ("tok" :> Object("", FALSE, "hunter2")),
       !.Configs = ("ext_cfg" :> Object("shared_cfg", TRUE, ""))]

\* ProjectFull whose secret has an explicit name of its own, the name under
\* which another stack keeps a secret of the same content.
ProjectTakeover ==
    [ProjectFull EXCEPT !.Secrets = ("tok" :> Object("other_tok", FALSE, "theirs"))]

SharedManifests == {ProjectFull, ProjectLabelled, ProjectExternal, ProjectTakeover}

ConcManifests == {ProjectWeb("app:v2"), ProjectEdge, ProjectFull}

ResolveImages == {ResolveImageAlways, ResolveImageChanged, ResolveImageNever}

(***************************************************************************)
(* State.                                                                  *)
(***************************************************************************)
VARIABLES
    manager,      \* Info().Swarm.ControlAvailable of the target node
    clNetworks,   \* cluster: network name -> [Scope, Labels]
    clSecrets,    \* cluster: secret name -> [ID, Version, Labels, Data]
    clConfigs,    \* cluster: config name -> [ID, Version, Labels, Data]
    clServices,   \* cluster: service name -> [ID, Version, Spec]
    nextID,       \* the next ID the cluster hands out
    dep,          \* deployer -> the locals of its Deploy run
    prev,         \* deployer -> what its previous Deploy run was and left
    runs,         \* deployer -> Deploy runs finished
    faults,       \* cluster calls that have returned an injected error
    wait,         \* the locals of a waitOnServices call and its context
    calc,         \* a function of the package applied to arguments: its result
    cli           \* the stored configuration and the last server command run on it

vars == <<manager, clNetworks, clSecrets, clConfigs, clServices, nextID,
          dep, prev, runs, faults, wait, calc, cli>>

cluster == <<manager, clNetworks, clSecrets, clConfigs, clServices, nextID>>

\* An empty configuration and no command run on it.
NoCli == [config |-> [Servers |-> [k \in {} |-> ""], DefaultServer |-> ""],
          op |-> "", name |-> "", err |-> "", newDefault |-> "", n |-> 0]

\* No function has been applied.
NoCalc == [fn |-> "", args |-> <<>>, out |-> <<>>]

NoErr == [msg |-> "", subject |-> ""]
Error(msg, subject) == [msg |-> msg, subject |-> subject]

\* One call on the cluster client, as the deployer issued it.  ok: the call
\* returned no error.  listed, current (ServiceUpdate): the version the
\* deployer's listing showed, and the version the cluster held at the call.
\* labels (creates and updates): the labels of the spec sent.
Call(op, name) ==
    [op |-> op, name |-> name, id |-> 0, version |-> 0, query |-> FALSE,
     image |-> "", force |-> 0, ok |-> TRUE, listed |-> 0, current |-> 0,
     result |-> "", labels |-> EmptyMap]

NoSpec == [Name |-> ""]
NoInspect == [found |-> FALSE, ID |-> 0, Version |-> 0]

Idle ==
    [pc |-> "idle", manifest |-> EmptyProject, project |-> EmptyProject,
     opts |-> [Stack |-> Stack, Prune |-> FALSE, ResolveImage |-> ResolveImageNever],
     err |-> NoErr, calls |-> <<>>, todo |-> {}, pruneErr |-> FALSE,
     plan |-> [create |-> EmptyMap, external |-> {}],
     pruneItems |-> EmptyMap, existingNetworks |-> {}, cur |-> NoSpec, inspected |-> NoInspect,
     specs |-> EmptyMap, listing |-> EmptyMap, serviceIDs |-> <<>>]

NoPrev == [ran |-> FALSE, ok |-> FALSE, manifest |-> EmptyProject,
           opts |-> Idle.opts, services |-> EmptyMap]

\* A service as an earlier deploy of the stack left it.
ExistingService(id, version, stack, name, label, image, force) ==
    [ID |-> id, Version |-> version,
     Spec |-> [Name |-> ScopeName(stack, name),
               Labels |-> (LabelNamespace :> stack) @@ (LabelImage :> label),
               Image |-> image, Secrets |-> {}, Configs |-> {},
               Networks |-> {ScopeName(stack, "default")},
               Mode |-> "replicated", RestartPolicy |-> NoRestartPolicy,
               ForceUpdate |-> force]]

\* An object as an earlier deploy of the stack left it.
ExistingObject(id, version, stack, data) ==
    [ID |-> id, Version |-> version, Labels |-> (LabelNamespace :> stack), Data |-> data]

\* The clusters a behaviour may start from.
EmptyCluster ==
    [networks |-> EmptyMap, secrets |-> EmptyMap, configs |-> EmptyMap,
     services |-> EmptyMap]

\* The stack was deployed before: web (resolved image, forced twice), its
\* network, secret and config, and a service the manifests no longer declare;
\* another stack runs beside it; the external network is there.
DeployedCluster ==
    [networks |-> ("edge" :> [Scope |-> "swarm", Labels |-> EmptyMap])
                  @@ ("demo_back" :> [Scope |-> "swarm", Labels |-> (LabelNamespace :> Stack)]),
     secrets |-> ("demo_tok" :> ExistingObject(4, 2, Stack, "hunter2")),
     configs |-> ("demo_cfg" :> ExistingObject(5, 3, Stack, "listen 80;")),
     services |->
       ("demo_web" :> ExistingService(1, 4, Stack, "web", "app:v1", "app:v1@sha256:d0", 2))
       @@ ("demo_old" :> ExistingService(2, 1, Stack, "old", "old:v1", "old:v1", 0))
       @@ ("other_web" :> ExistingService(3, 7, OtherStack, "web", "app:v1", "app:v1", 0))]

\* The external network exists, but on one node only.
LocalEdgeCluster ==
    [EmptyCluster EXCEPT !.networks = ("edge" :> [Scope |-> "local", Labels |-> EmptyMap])]

InitialClusters == {EmptyCluster, DeployedCluster, LocalEdgeCluster}

\* None of the stack's resources is there; the external network, secret and
\* config are, and so is a secret of another stack.
SharedCluster ==
    [EmptyCluster EXCEPT
       !.networks = ("edge" :> [Scope |-> "swarm", Labels |-> EmptyMap]),
       !.secrets = ("ext_tok" :> [ID |-> 4, Version |-> 1, Labels |-> EmptyMap, Data |-> "s3"])
                   @@ ("other_tok" :> ExistingObject(3, 5, OtherStack, "theirs")),
       !.configs = ("shared_cfg" :> [ID |-> 5, Version |-> 1, Labels |-> EmptyMap, Data |-> "c3"])]

ClusterIs(c) ==
    /\ clNetworks = c.networks
    /\ clSecrets = c.secrets
    /\ clConfigs = c.configs
    /\ clServices = c.services
    /\ nextID = 6

ClusterInit ==
    /\ manager \in BOOLEAN
    /\ \E c \in InitialClusters : ClusterIs(c)

(***************************************************************************)
(* The cluster client: what a call returns and does to the cluster.        *)
(***************************************************************************)
\* getStackFilter: the labels are those of a resource of the stack.
getStackFilter(stack, labels) ==
    LabelNamespace \in DOMAIN labels /\ labels[LabelNamespace] = stack

ServiceListing(stack) ==
    [n \in {x \in DOMAIN clServices : getStackFilter(stack, clServices[x].Spec.Labels)}
        |-> clServices[n]]

\* The registry's answer for an image: the image pinned to its digest.
Resolve(image) == image \o "@sha256:d1"

ServiceByID(id) == {n \in DOMAIN clServices : clServices[n].ID = id}
ObjectByID(map, id) == {n \in DOMAIN map : map[n].ID = id}

Without(map, names) == [n \in DOMAIN map \ names |-> map[n]]

FaultChoices == IF faults < MaxFaults THEN {FALSE, TRUE} ELSE {FALSE}
Count(fail) == faults' = IF fail THEN faults + 1 ELSE faults

(***************************************************************************)
(* Deploy: the order of the reconciliation stages.                         *)
(***************************************************************************)
Log(r, c) == [r EXCEPT !.calls = Append(@, c)]
Fail(r, msg, subject) == [r EXCEPT !.pc = "done", !.err = Error(msg, subject)]

RECURSIVE SeqOf(_)
SeqOf(S) == IF S = {} THEN <<>>
            ELSE LET x == CHOOSE y \in S : TRUE IN <<x>> \o SeqOf(S \ {x})

\* Deploy, lines 248-281: networks, then secrets, then configs, then services.
\* A variant that reconciles configs before secrets.
StageOrderConfigsFirst == <<"networks", "configs", "secrets", "services">>

StageOrder == <<"networks", "secrets", "configs", "services">>

NextStage(stage) ==
    LET i == CHOOSE k \in 1..Len(StageOrder) : StageOrder[k] = stage
    IN  IF i < Len(StageOrder) THEN StageOrder[i + 1] ELSE "end"

\* The first step of a stage, with what the converter hands it.
Enter(stage, r) ==
    CASE stage = "networks" ->
           LET plan == ConvertNetworks(r.opts.Stack, r.project.Networks,
                                       GetServicesDeclaredNetworks(r.project.Services))
           IN  [r EXCEPT !.pc = "validate", !.plan = plan, !.todo = plan.external]
      [] stage = "secrets" ->
           [r EXCEPT !.pc = "secLoop", !.todo = ConvertSecrets(r.opts.Stack, r.project.Secrets)]
      [] stage = "configs" ->
           [r EXCEPT !.pc = "cfgLoop", !.todo = ConvertConfigs(r.opts.Stack, r.project.Configs)]
      [] stage = "services" ->
           [r EXCEPT !.pc = "convert", !.todo = DOMAIN r.project.Services, !.specs = EmptyMap]
      [] OTHER -> [r EXCEPT !.pc = "done"]

\* pruneServices returns the joined removal errors once every item is done.
PruneResult(r) ==
    IF r.pruneErr THEN Fail(r, "failed to remove services", "") ELSE Enter("networks", r)

\* A loop whose items are all handled hands over to what follows it.
RECURSIVE Settle(_)
Settle(r) ==
    IF r.todo # {} THEN r
    ELSE CASE r.pc = "pruneLoop" -> Settle(PruneResult(r))
           [] r.pc = "validate" -> [r EXCEPT !.pc = "netList"]
           [] r.pc = "netLoop" -> Settle(Enter(NextStage("networks"), r))
           [] r.pc = "secLoop" -> Settle(Enter(NextStage("secrets"), r))
           [] r.pc = "cfgLoop" -> Settle(Enter(NextStage("configs"), r))
           [] r.pc = "convert" -> [r EXCEPT !.pc = "svcList"]
           [] r.pc = "svcLoop" -> Enter(NextStage("services"), r)
           [] OTHER -> r

\* A step of Deploy up to deployServices: no wait is under way.
Step(d, r) == dep' = [dep EXCEPT ![d] = r] /\ UNCHANGED <<wait, calc, cli>>

(***************************************************************************)
(* Deploy, lines 226-246: materialization, manager check, prune.           *)
(***************************************************************************)
\* Deploy is called with a manifest and options.
Begin(d, m, prune, ri) ==
    LET base == [Idle EXCEPT !.manifest = m,
                             !.opts = [Stack |-> Stack, Prune |-> prune, ResolveImage |-> ri]]
        lc == processLocalConfigs(m)
        ss == processSensitiveSecrets(lc.project)
    IN  Step(d, IF lc.err # "" THEN Fail(base, lc.err, "")
                ELSE IF ss.err # "" THEN Fail(base, ss.err, "")
                ELSE [base EXCEPT !.pc = "info", !.project = ss.project])

StartDeploy(d, manifests, prunes, policies) ==
    /\ dep[d].pc = "idle"
    /\ runs[d] < MaxRuns
    /\ \E m \in manifests, prune \in prunes, ri \in policies : Begin(d, m, prune, ri)
    /\ UNCHANGED <<cluster, prev, runs, faults>>

\* Deploy is called again with the manifest and the options of the run before.
Redeploy(d) ==
    /\ dep[d].pc = "idle"
    /\ prev[d].ran
    /\ runs[d] < MaxRuns + MaxRedeploys
    /\ Begin(d, prev[d].manifest, prev[d].opts.Prune, prev[d].opts.ResolveImage)
    /\ UNCHANGED <<cluster, prev, runs, faults>>

\* A variant that accepts a node without control of the cluster.
checkDaemonAnyNode(failed, controlAvailable) ==
    IF failed THEN Error("info failed", "") ELSE NoErr

checkDaemonIsSwarmManager(failed, controlAvailable) ==
    IF failed THEN Error("info failed", "")
    ELSE IF ~controlAvailable THEN Error("this node is not a swarm manager", "")
    ELSE NoErr

CheckManager(d) ==
    /\ dep[d].pc = "info"
    /\ \E fail \in FaultChoices :
         LET r == Log(dep[d], [Call("Info", "") EXCEPT !.ok = ~fail])
             err == checkDaemonIsSwarmManager(fail, manager)
         IN  /\ Step(d, IF err # NoErr THEN Fail(r, err.msg, err.subject)
                        ELSE IF r.opts.Prune THEN [r EXCEPT !.pc = "pruneList"]
                        ELSE Settle(Enter("networks", r)))
             /\ Count(fail)
    /\ UNCHANGED <<cluster, prev, runs>>

\* Deploy, lines 239-242: the names handed to pruneServices.
PruneKeep(project) == {project.Services[s].Name : s \in DOMAIN project.Services}

\* pruneServices, line 309: a listed service is removed iff this holds.
Orphaned(keep, svc) == svc.Spec.Name \notin keep

\* A variant that keeps only the outcome of the last removal.
lastErr(pruneErr, failed) == failed

\* pruneServices, line 311: errors.Join(pruneErr, err); a joined error is
\* non-nil once one removal has failed.
joinErr(pruneErr, failed) == pruneErr \/ failed

PruneList(d) ==
    /\ dep[d].pc = "pruneList"
    /\ \E fail \in FaultChoices :
         LET r == Log(dep[d], [Call("ServiceList", "") EXCEPT !.ok = ~fail])
             items == ServiceListing(r.opts.Stack)
         IN  /\ Step(d, IF fail THEN Fail(r, "service list failed", "")
                        ELSE Settle([r EXCEPT !.pc = "pruneLoop", !.pruneItems = items,
                                              !.todo = DOMAIN items, !.pruneErr = FALSE]))
             /\ Count(fail)
    /\ UNCHANGED <<cluster, prev, runs>>

\* One item of the listing: removed if orphaned, kept otherwise.  A failed
\* removal is recorded and the loop goes on.
PruneOne(d) ==
    /\ dep[d].pc = "pruneLoop"
    /\ \E n \in dep[d].todo, fail \in FaultChoices :
         LET id == dep[d].pruneItems[n].ID
             ok == ~fail /\ ServiceByID(id) # {}
             r == Log(dep[d], [Call("ServiceRemove", n) EXCEPT !.id = id, !.ok = ok])
         IN  IF Orphaned(PruneKeep(dep[d].project), dep[d].pruneItems[n])
             THEN /\ clServices' = IF ok THEN Without(clServices, ServiceByID(id))
                                   ELSE clServices
                  /\ Step(d, Settle([r EXCEPT !.todo = @ \ {n}, !.pruneErr = joinErr(@, ~ok)]))
                  /\ Count(fail)
             ELSE /\ ~fail
                  /\ Step(d, Settle([dep[d] EXCEPT !.todo = @ \ {n}]))
                  /\ UNCHANGED <<clServices, faults>>
    /\ UNCHANGED <<manager, clNetworks, clSecrets, clConfigs, nextID, prev, runs>>

(***************************************************************************)
(* validateExternalNetworks, createNetworks.                               *)
(***************************************************************************)
\* The outcome of one NetworkInspect of validateExternalNetworks.
\* A variant that accepts an external network of any scope.
validateExternalNetworkAnyScope(name, failed, found, scope) ==
    IF failed THEN Error("network inspect failed", "")
    ELSE IF ~found
    THEN Error("is declared as external, but could not be found", name)
    ELSE NoErr

validateExternalNetwork(name, failed, found, scope) ==
    IF failed THEN Error("network inspect failed", "")
    ELSE IF ~found
    THEN Error("is declared as external, but could not be found", name)
    ELSE IF scope # "swarm"
    THEN Error("is declared as external, but it is not in the right scope", name)
    ELSE NoErr

ValidateSkip(d) ==
    /\ dep[d].pc = "validate"
    /\ \E n \in dep[d].todo :
         /\ ~IsUserDefined(n)
         /\ Step(d, Settle([dep[d] EXCEPT !.todo = @ \ {n}]))
    /\ UNCHANGED <<cluster, prev, runs, faults>>

ValidateInspect(d) ==
    /\ dep[d].pc = "validate"
    /\ \E n \in dep[d].todo, fail \in FaultChoices :
         LET found == n \in DOMAIN clNetworks
             err == validateExternalNetwork(n, fail, found,
                                            IF found THEN clNetworks[n].Scope ELSE "")
             r == Log(dep[d], [Call("NetworkInspect", n) EXCEPT !.ok = ~fail /\ found])
         IN  /\ IsUserDefined(n)
             /\ Step(d, IF err # NoErr THEN Fail(r, err.msg, err.subject)
                        ELSE Settle([r EXCEPT !.todo = @ \ {n}]))
             /\ Count(fail)
    /\ UNCHANGED <<cluster, prev, runs>>

NetList(d) ==
    /\ dep[d].pc = "netList"
    /\ \E fail \in FaultChoices :
         LET r == Log(dep[d], [Call("NetworkList", "") EXCEPT !.ok = ~fail])
         IN  /\ Step(d, IF fail THEN Fail(r, "network list failed", "")
                        ELSE Settle([r EXCEPT
                               !.pc = "netLoop",
                               !.existingNetworks =
                                   {x \in DOMAIN clNetworks :
                                      getStackFilter(r.opts.Stack, clNetworks[x].Labels)},
                               !.todo = DOMAIN r.plan.create]))
             /\ Count(fail)
    /\ UNCHANGED <<cluster, prev, runs>>

\* A variant that takes every desired network for a new one.
NetworkExistsNever(existing, name) == FALSE

\* createNetworks, line 348: a network the listing shows is left alone.
NetworkExists(existing, name) == name \in existing

NetSkip(d) ==
    /\ dep[d].pc = "netLoop"
    /\ \E n \in dep[d].todo :
         /\ NetworkExists(dep[d].existingNetworks, n)
         /\ Step(d, Settle([dep[d] EXCEPT !.todo = @ \ {n}]))
    /\ UNCHANGED <<cluster, prev, runs, faults>>

\* createNetworks, lines 356-358: what a failed NetworkCreate does to the run.
NetworkCreateFailed(r, name) == Fail(r, "failed to create network", name)

NetCreate(d) ==
    /\ dep[d].pc = "netLoop"
    /\ \E n \in dep[d].todo, fail \in FaultChoices :
         LET ok == ~fail /\ n \notin DOMAIN clNetworks
             r == Log(dep[d], [Call("NetworkCreate", n) EXCEPT
                                 !.ok = ok, !.labels = dep[d].plan.create[n].Labels])
         IN  /\ ~NetworkExists(dep[d].existingNetworks, n)
             /\ clNetworks' = IF ok
                              THEN (n :> [Scope |-> "swarm", Labels |-> r.plan.create[n].Labels])
                                   @@ clNetworks
                              ELSE clNetworks
             /\ Step(d, IF ok THEN Settle([r EXCEPT !.todo = @ \ {n}])
                        ELSE Settle(NetworkCreateFailed([r EXCEPT !.todo = @ \ {n}], n)))
             /\ Count(fail)
    /\ UNCHANGED <<manager, clSecrets, clConfigs, clServices, nextID, prev, runs>>

(***************************************************************************)
(* createSecrets, createConfigs.                                           *)
(***************************************************************************)
\* The result of an inspect by name.
Inspect(map, name) ==
    IF name \in DOMAIN map
    THEN [found |-> TRUE, ID |-> map[name].ID, Version |-> map[name].Version]
    ELSE NoInspect

\* The cluster accepts an update of an object it holds at the version given.
UpdateAccepted(map, id, version) ==
    \E n \in ObjectByID(map, id) : map[n].Version = version

Updated(map, id, spec) ==
    [n \in DOMAIN map |->
        IF map[n].ID = id
        THEN [ID |-> id, Version |-> map[n].Version + 1,
              Labels |-> spec.Labels, Data |-> spec.Data]
        ELSE map[n]]

Created(map, id, spec) ==
    (spec.Name :> [ID |-> id, Version |-> 1, Labels |-> spec.Labels, Data |-> spec.Data])
    @@ map

\* A variant that takes every inspect error for not-found.
inspectBranchCreateOnError(failed, found) ==
    IF ~failed /\ found THEN "update" ELSE "create"

\* createSecrets, lines 366-385, and createConfigs, lines 392-411: the branch
\* of the switch on the inspect's error.
inspectBranch(failed, found) ==
    IF failed THEN "return"
    ELSE IF found THEN "update"
    ELSE "create"

SecretInspect(d) ==
    /\ dep[d].pc = "secLoop"
    /\ \E spec \in dep[d].todo, fail \in FaultChoices :
         LET res == Inspect(clSecrets, spec.Name)
             branch == inspectBranch(fail, res.found)
             r == Log(dep[d], [Call("SecretInspect", spec.Name) EXCEPT
                                 !.ok = ~fail /\ res.found,
                                 !.id = IF fail THEN 0 ELSE res.ID,
                                 !.version = IF fail THEN 0 ELSE res.Version,
                                 !.result = IF fail THEN "error"
                                            ELSE IF res.found THEN "found" ELSE "notfound"])
         IN  /\ Step(d, IF branch = "return" THEN Fail(r, "secret inspect failed", spec.Name)
                        ELSE [r EXCEPT !.pc = "secApply", !.cur = spec,
                                       !.inspected = IF branch = "update" THEN res
                                                     ELSE NoInspect])
             /\ Count(fail)
    /\ UNCHANGED <<cluster, prev, runs>>

SecretUpdate(d) ==
    /\ dep[d].pc = "secApply"
    /\ dep[d].inspected.found
    /\ \E fail \in FaultChoices :
         LET spec == dep[d].cur
             res == dep[d].inspected
             ok == ~fail /\ UpdateAccepted(clSecrets, res.ID, res.Version)
             held == ObjectByID(clSecrets, res.ID)
             r == Log(dep[d], [Call("SecretUpdate", spec.Name) EXCEPT
                                 !.id = res.ID, !.version = res.Version, !.ok = ok,
                                 !.labels = spec.Labels,
                                 !.listed = res.Version,
                                 !.current = IF held = {} THEN 0
                                             ELSE clSecrets[CHOOSE n \in held : TRUE].Version])
         IN  /\ clSecrets' = IF ok THEN Updated(clSecrets, res.ID, spec) ELSE clSecrets
             /\ Step(d, IF ok THEN Settle([r EXCEPT !.pc = "secLoop", !.todo = @ \ {spec}])
                        ELSE Fail(r, "failed to update secret", spec.Name))
             /\ Count(fail)
    /\ UNCHANGED <<manager, clNetworks, clConfigs, clServices, nextID, prev, runs>>

SecretCreate(d) ==
    /\ dep[d].pc = "secApply"
    /\ ~dep[d].inspected.found
    /\ \E fail \in FaultChoices :
         LET spec == dep[d].cur
             ok == ~fail /\ spec.Name \notin DOMAIN clSecrets
             r == Log(dep[d], [Call("SecretCreate", spec.Name) EXCEPT
                                 !.ok = ok, !.labels = spec.Labels])
         IN  /\ clSecrets' = IF ok THEN Created(clSecrets, nextID, spec) ELSE clSecrets
             /\ nextID' = IF ok THEN nextID + 1 ELSE nextID
             /\ Step(d, IF ok THEN Settle([r EXCEPT !.pc = "secLoop", !.todo = @ \ {spec}])
                        ELSE Fail(r, "failed to create secret", spec.Name))
             /\ Count(fail)
    /\ UNCHANGED <<manager, clNetworks, clConfigs, clServices, prev, runs>>

ConfigInspect(d) ==
    /\ dep[d].pc = "cfgLoop"
    /\ \E spec \in dep[d].todo, fail \in FaultChoices :
         LET res == Inspect(clConfigs, spec.Name)
             branch == inspectBranch(fail, res.found)
             r == Log(dep[d], [Call("ConfigInspect", spec.Name) EXCEPT
                                 !.ok = ~fail /\ res.found,
                                 !.id = IF fail THEN 0 ELSE res.ID,
                                 !.version = IF fail THEN 0 ELSE res.Version,
                                 !.result = IF fail THEN "error"
                                            ELSE IF res.found THEN "found" ELSE "notfound"])
         IN  /\ Step(d, IF branch = "return" THEN Fail(r, "config inspect failed", spec.Name)
                        ELSE [r EXCEPT !.pc = "cfgApply", !.cur = spec,
                                       !.inspected = IF branch = "update" THEN res
                                                     ELSE NoInspect])
             /\ Count(fail)
    /\ UNCHANGED <<cluster, prev, runs>>

ConfigUpdate(d) ==
    /\ dep[d].pc = "cfgApply"
    /\ dep[d].inspected.found
    /\ \E fail \in FaultChoices :
         LET spec == dep[d].cur
             res == dep[d].inspected
             ok == ~fail /\ UpdateAccepted(clConfigs, res.ID, res.Version)
             held == ObjectByID(clConfigs, res.ID)
             r == Log(dep[d], [Call("ConfigUpdate", spec.Name) EXCEPT
                                 !.id = res.ID, !.version = res.Version, !.ok = ok,
                                 !.labels = spec.Labels,
                                 !.listed = res.Version,
                                 !.current = IF held = {} THEN 0
                                             ELSE clConfigs[CHOOSE n \in held : TRUE].Version])
         IN  /\ clConfigs' = IF ok THEN Updated(clConfigs, res.ID, spec) ELSE clConfigs
             /\ Step(d, IF ok THEN Settle([r EXCEPT !.pc = "cfgLoop", !.todo = @ \ {spec}])
                        ELSE Fail(r, "failed to update config", spec.Name))
             /\ Count(fail)
    /\ UNCHANGED <<manager, clNetworks, clSecrets, clServices, nextID, prev, runs>>

ConfigCreate(d) ==
    /\ dep[d].pc = "cfgApply"
    /\ ~dep[d].inspected.found
    /\ \E fail \in FaultChoices :
         LET spec == dep[d].cur
             ok == ~fail /\ spec.Name \notin DOMAIN clConfigs
             r == Log(dep[d], [Call("ConfigCreate", spec.Name) EXCEPT
                                 !.ok = ok, !.labels = spec.Labels])
         IN  /\ clConfigs' = IF ok THEN Created(clConfigs, nextID, spec) ELSE clConfigs
             /\ nextID' = IF ok THEN nextID + 1 ELSE nextID
             /\ Step(d, IF ok THEN Settle([r EXCEPT !.pc = "cfgLoop", !.todo = @ \ {spec}])
                        ELSE Fail(r, "failed to create config", spec.Name))
             /\ Count(fail)
    /\ UNCHANGED <<manager, clNetworks, clSecrets, clServices, prev, runs>>

(***************************************************************************)
(* ConvertServices, deployServices.                                        *)
(***************************************************************************)
ConvertOne(d) ==
    /\ dep[d].pc = "convert"
    /\ \E s \in dep[d].todo :
         LET r0 == dep[d]
             svc == r0.project.Services[s]
             res == convertService(r0.opts.Stack, svc, r0.project.Networks,
                                   r0.project.Volumes, r0.project.Secrets,
                                   r0.project.Configs, clSecrets, clConfigs)
             lookups == [i \in 1..Cardinality(res.secretLookups) |->
                           [Call("SecretInspect", SeqOf(res.secretLookups)[i]) EXCEPT
                              !.ok = SeqOf(res.secretLookups)[i] \in DOMAIN clSecrets]]
                        \o [i \in 1..Cardinality(res.configLookups) |->
                           [Call("ConfigInspect", SeqOf(res.configLookups)[i]) EXCEPT
                              !.ok = SeqOf(res.configLookups)[i] \in DOMAIN clConfigs]]
             r == [r0 EXCEPT !.calls = @ \o lookups]
         IN  Step(d, IF res.err # ""
                     THEN Fail(r, "failed to convert service: " \o res.err, svc.Name)
                     ELSE Settle([r EXCEPT !.todo = @ \ {s},
                                           !.specs = (svc.Name :> res.spec) @@ @]))
    /\ UNCHANGED <<cluster, prev, runs, faults>>

SvcList(d) ==
    /\ dep[d].pc = "svcList"
    /\ \E fail \in FaultChoices :
         LET r == Log(dep[d], [Call("ServiceList", "") EXCEPT !.ok = ~fail])
         IN  /\ Step(d, IF fail THEN Fail(r, "service list failed", "")
                        ELSE Settle([r EXCEPT !.pc = "svcLoop",
                                              !.listing = ServiceListing(r.opts.Stack),
                                              !.todo = DOMAIN r.specs,
                                              !.serviceIDs = <<>>]))
             /\ Count(fail)
    /\ UNCHANGED <<cluster, prev, runs>>

\* deployServices, lines 435-456: the update options and the spec fields that
\* depend on the existing service svc; image is the desired image.
\* A variant that sends the version the service holds at the time of the call.
currentVersion(svc) ==
    IF ServiceByID(svc.ID) = {} THEN svc.Version
    ELSE clServices[CHOOSE n \in ServiceByID(svc.ID) : TRUE].Version

\* deployServices, line 436: the version token is the one the listing gave.
updateVersion(svc) == svc.Version

\* A variant that always sends the desired image.
desiredImage(resolveImage, image, svc) == image

\* deployServices, lines 440-453: the image the update sends.
updateImage(resolveImage, image, svc) ==
    CASE resolveImage = ResolveImageAlways -> image
      [] resolveImage = ResolveImageChanged ->
            IF image # svc.Spec.Labels[LabelImage] THEN image ELSE svc.Spec.Image
      [] OTHER ->
            IF image = svc.Spec.Labels[LabelImage] THEN svc.Spec.Image ELSE image

\* deployServices, lines 440-453: whether the update asks the registry.
updateQueryRegistry(resolveImage, image, svc) ==
    CASE resolveImage = ResolveImageAlways -> TRUE
      [] resolveImage = ResolveImageChanged -> image # svc.Spec.Labels[LabelImage]
      [] OTHER -> FALSE

\* Variants that leave the counter of the desired spec, or advance the
\* existing one.
desiredForceUpdate(svc) == 0
nextForceUpdate(svc) == svc.Spec.ForceUpdate + 1

\* deployServices, line 455: the counter of the existing service is kept.
updateForceUpdate(svc) == svc.Spec.ForceUpdate

updateOpts(resolveImage, image, svc) ==
    [Version |-> updateVersion(svc),
     QueryRegistry |-> updateQueryRegistry(resolveImage, image, svc),
     Image |-> updateImage(resolveImage, image, svc),
     ForceUpdate |-> updateForceUpdate(svc)]

\* deployServices, line 473.
createQueryRegistry(resolveImage) ==
    resolveImage = ResolveImageAlways \/ resolveImage = ResolveImageChanged

\* A variant that takes every desired service for a new one.
ServiceExistsNever(listing, name) == FALSE

\* deployServices, line 434: the desired service is one the listing shows.
ServiceExists(listing, name) == name \in DOMAIN listing

\* The spec a service holds once the call is through: with the registry
\* queried, the image is pinned to the digest the registry gives.
Stored(spec, query) == [spec EXCEPT !.Image = IF query THEN Resolve(@) ELSE @]

SvcUpdate(d) ==
    /\ dep[d].pc = "svcLoop"
    /\ \E internalName \in dep[d].todo, fail \in FaultChoices :
         LET r0 == dep[d]
             name == ScopeName(r0.opts.Stack, internalName)
             svc == r0.listing[name]
             desired == r0.specs[internalName]
             opts == updateOpts(r0.opts.ResolveImage, desired.Image, svc)
             spec == [desired EXCEPT !.Image = opts.Image, !.ForceUpdate = opts.ForceUpdate]
             held == ServiceByID(svc.ID)
             current == IF held = {} THEN 0
                        ELSE clServices[CHOOSE n \in held : TRUE].Version
             ok == ~fail /\ held # {} /\ current = opts.Version
             r == Log(r0, [Call("ServiceUpdate", name) EXCEPT
                             !.id = svc.ID, !.version = opts.Version,
                             !.query = opts.QueryRegistry, !.image = opts.Image,
                             !.force = spec.ForceUpdate, !.ok = ok,
                             !.listed = svc.Version, !.current = current,
                             !.labels = spec.Labels])
         IN  /\ ServiceExists(r0.listing, name)
             /\ clServices' =
                  IF ok
                  THEN [n \in DOMAIN clServices |->
                          IF n \in held
                          THEN [ID |-> svc.ID, Version |-> current + 1,
                                Spec |-> Stored(spec, opts.QueryRegistry)]
                          ELSE clServices[n]]
                  ELSE clServices
             /\ Step(d, IF ok
                        THEN Settle([r EXCEPT !.todo = @ \ {internalName},
                                              !.serviceIDs = Append(@, svc.ID)])
                        ELSE Fail(r, "failed to update service", name))
             /\ Count(fail)
    /\ UNCHANGED <<manager, clNetworks, clSecrets, clConfigs, nextID, prev, runs>>

SvcCreate(d) ==
    /\ dep[d].pc = "svcLoop"
    /\ \E internalName \in dep[d].todo, fail \in FaultChoices :
         LET r0 == dep[d]
             name == ScopeName(r0.opts.Stack, internalName)
             spec == r0.specs[internalName]
             query == createQueryRegistry(r0.opts.ResolveImage)
             ok == ~fail /\ spec.Name \notin DOMAIN clServices
             r == Log(r0, [Call("ServiceCreate", spec.Name) EXCEPT
                             !.id = nextID, !.query = query, !.image = spec.Image,
                             !.force = spec.ForceUpdate, !.ok = ok,
                             !.labels = spec.Labels])
         IN  /\ ~ServiceExists(r0.listing, name)
             /\ clServices' =
                  IF ok
                  THEN (spec.Name :> [ID |-> nextID, Version |-> 1, Spec |-> Stored(spec, query)])
                       @@ clServices
                  ELSE clServices
             /\ nextID' = IF ok THEN nextID + 1 ELSE nextID
             /\ Step(d, IF ok
                        THEN Settle([r EXCEPT !.todo = @ \ {internalName},
                                              !.serviceIDs = Append(@, nextID)])
                        ELSE Fail(r, "failed to create service", name))
             /\ Count(fail)
    /\ UNCHANGED <<manager, clNetworks, clSecrets, clConfigs, prev, runs>>

\* Deploy has returned; the deployer is free for its next run.
Return(d) ==
    /\ dep[d].pc = "done"
    /\ prev' = [prev EXCEPT ![d] =
                  [ran |-> TRUE, ok |-> dep[d].err = NoErr,
                   manifest |-> dep[d].manifest, opts |-> dep[d].opts,
                   services |-> ServiceListing(dep[d].opts.Stack)]]
    /\ runs' = [runs EXCEPT ![d] = @ + 1]
    /\ Step(d, Idle)
    /\ UNCHANGED <<cluster, faults>>

(***************************************************************************)
(* waitOnServices: Deploy's wait for the services to converge.  The        *)
(* repository holds the function twice, in docker.go and in part_014; the  *)
(* two differ in the break that follows a converged poll and in the timer. *)
(***************************************************************************)
WaitSources == {"docker.go", "part_014"}

NoWait ==
    [pc |-> "idle", source |-> "docker.go", serviceIDs |-> <<>>, idx |-> 0,
     cancelled |-> FALSE, expired |-> FALSE, err |-> NoErr, polls |-> <<>>]

\* The service ID lists deployServices may hand over.
ServiceIDLists == {<<>>, <<"s1">>, <<"s2">>, <<"s1", "s2">>, <<"s2", "s1">>}

\* What one ServiceInspect returns: an error, or a service whose
\* ServiceStatus is nil or holds RunningTasks and DesiredTasks.
InspectResults ==
    {[failed |-> TRUE, status |-> FALSE, running |-> 0, desired |-> 0],
     [failed |-> FALSE, status |-> FALSE, running |-> 0, desired |-> 0]}
    \cup {[failed |-> FALSE, status |-> TRUE, running |-> r, desired |-> n] :
            r \in 0..MaxTasks, n \in 0..MaxTasks}

\* waitOnServices, docker.go lines 887-890 (part_014 lines 343-346): the poll
\* shows the service converged.
converged(res) == res.status /\ res.running >= res.desired /\ res.desired > 0

\* The break after a converged poll.  docker.go line 894: break waitLoop
\* leaves the loop of the service.  part_014 line 350: a plain break inside
\* the select ends the select only, and the loop of the service goes on.
leavesLoop(source) == source = "docker.go"

\* The wait after the loop of a service is left: the next service, or the
\* return of nil once the range over the IDs is through.
NextService(w) ==
    IF w.idx + 1 > Len(w.serviceIDs)
    THEN [w EXCEPT !.pc = "returned", !.idx = w.idx + 1]
    ELSE [w EXCEPT !.idx = w.idx + 1]

WaitReturn(w, msg, subject) == [w EXCEPT !.pc = "returned", !.err = Error(msg, subject)]

\* Deploy calls waitOnServices with the IDs deployServices returned.
WaitStart ==
    /\ wait.pc = "idle"
    /\ \E ids \in ServiceIDLists, source \in WaitSources :
         wait' = NextService([NoWait EXCEPT !.pc = "polling", !.source = source,
                                             !.serviceIDs = ids])
    /\ UNCHANGED <<cluster, dep, prev, runs, faults, calc, cli>>

\* The caller cancels the context, or the context's deadline passes.
Cancel ==
    /\ wait.pc = "polling"
    /\ ~wait.cancelled
    /\ wait' = [wait EXCEPT !.cancelled = TRUE]
    /\ UNCHANGED <<cluster, dep, prev, runs, faults, calc, cli>>

\* docker.go line 867: the five minutes of time.After are over.
Expire ==
    /\ wait.pc = "polling"
    /\ wait.source = "docker.go"
    /\ ~wait.expired
    /\ wait' = [wait EXCEPT !.expired = TRUE]
    /\ UNCHANGED <<cluster, dep, prev, runs, faults, calc, cli>>

\* select, case <-ctx.Done(): return ctx.Err().
CtxDone ==
    /\ wait.pc = "polling"
    /\ wait.cancelled
    /\ wait' = WaitReturn(wait, "context canceled", "")
    /\ UNCHANGED <<cluster, dep, prev, runs, faults, calc, cli>>

\* select, case <-timeout (docker.go lines 879-880).
TimedOut ==
    /\ wait.pc = "polling"
    /\ wait.expired
    /\ wait' = WaitReturn(wait, "timeout waiting for service", wait.serviceIDs[wait.idx])
    /\ UNCHANGED <<cluster, dep, prev, runs, faults, calc, cli>>

\* select, case <-ticker.C: one ServiceInspect of the service waited for.  A
\* call on a cancelled context returns an error.
Poll ==
    /\ wait.pc = "polling"
    /\ Len(wait.polls) < MaxPolls
    /\ \E res \in InspectResults :
         LET id == wait.serviceIDs[wait.idx]
             w == [wait EXCEPT !.polls = Append(@, [id |-> id, res |-> res])]
         IN  /\ wait.cancelled => res.failed
             /\ wait' = IF res.failed THEN WaitReturn(w, "failed to inspect service", id)
                        ELSE IF converged(res) /\ leavesLoop(w.source) THEN NextService(w)
                        ELSE w
    /\ UNCHANGED <<cluster, dep, prev, runs, faults, calc, cli>>

(***************************************************************************)
(* The server commands on the stored configuration (vault.Config).  Every  *)
(* command loads the configuration, changes it and saves it; a command     *)
(* that fails saves nothing.                                               *)
(***************************************************************************)
MaxCmds == 4

\* The names and hosts a command may be given; the name is args[0], which
\* may be the empty string.
ServerNames == {"", "primary", "secondary"}
ServerHosts == {"a.example.com", "b.example.com"}

\* A variant that leaves the default alone.
AddServerKeepDefault(c, name, server) ==
    [c EXCEPT !.Servers = [k \in DOMAIN c.Servers \cup {name} |->
                              IF k = name THEN server ELSE c.Servers[k]]]

\* Config.AddServer: the server is stored under the name; without a default
\* the name becomes the default.
AddServer(c, name, server) ==
    [Servers |-> [k \in DOMAIN c.Servers \cup {name} |->
                    IF k = name THEN server ELSE c.Servers[k]],
     DefaultServer |-> IF c.DefaultServer = "" THEN name ELSE c.DefaultServer]

\* A variant that clears the default and never names another.
RemoveServerClear(c, name) ==
    {[config |-> [Servers |-> [k \in DOMAIN c.Servers \ {name} |-> c.Servers[k]],
                  DefaultServer |-> IF c.DefaultServer = name THEN "" ELSE c.DefaultServer],
      newDefault |-> ""]}

\* Config.RemoveServer: the configurations it may leave, with its result.
\* When the default is removed, the first name the range over the remaining
\* servers visits (any of them) becomes the default.
RemoveServer(c, name) ==
    LET rest == [k \in DOMAIN c.Servers \ {name} |-> c.Servers[k]]
    IN  IF c.DefaultServer # name
        THEN {[config |-> [Servers |-> rest, DefaultServer |-> c.DefaultServer],
               newDefault |-> ""]}
        ELSE IF DOMAIN rest = {}
        THEN {[config |-> [Servers |-> rest, DefaultServer |-> ""], newDefault |-> ""]}
        ELSE {[config |-> [Servers |-> rest, DefaultServer |-> n], newDefault |-> n] :
                 n \in DOMAIN rest}

\* A variant that sets the default to any name.
SetDefaultAny(c, name) ==
    [err |-> "", config |-> [c EXCEPT !.DefaultServer = name]]

\* Config.SetDefault
SetDefault(c, name) ==
    IF name \notin DOMAIN c.Servers
    THEN [err |-> "server not found", config |-> c]
    ELSE [err |-> "", config |-> [c EXCEPT !.DefaultServer = name]]

\* Config.GetServer: the name looked up is the default when none is given.
GetServer(c, name) ==
    LET n == IF name = "" THEN c.DefaultServer ELSE name
    IN  IF n = "" THEN [err |-> "no server specified and no default set", name |-> ""]
        ELSE IF n \notin DOMAIN c.Servers THEN [err |-> "server not found", name |-> n]
        ELSE [err |-> "", name |-> n]

\* The command has run: cli holds what it saved and returned.
Ran(op, name, err, config, newDefault) ==
    /\ cli.n < MaxCmds
    /\ cli' = [config |-> config, op |-> op, name |-> name, err |-> err,
               newDefault |-> newDefault, n |-> cli.n + 1]
    /\ UNCHANGED <<cluster, dep, prev, runs, faults, wait, calc>>

runServerAdd ==
    \E name \in ServerNames, host \in ServerHosts :
        Ran("add", name, "", AddServer(cli.config, name, host), "")

\* runServerRemove: an unknown name is an error before anything is changed.
runServerRemove ==
    \E name \in ServerNames :
        IF name \notin DOMAIN cli.config.Servers
        THEN Ran("remove", name, "server not found", cli.config, "")
        ELSE \E res \in RemoveServer(cli.config, name) :
                Ran("remove", name, "", res.config, res.newDefault)

runServerSetDefault ==
    \E name \in ServerNames :
        LET res == SetDefault(cli.config, name)
        IN  Ran("set-default", name, res.err, res.config, "")

NextServer ==
    \/ runServerAdd
    \/ runServerRemove
    \/ runServerSetDefault

(***************************************************************************)
(* Specifications.                                                         *)
(***************************************************************************)
Init ==
    /\ ClusterInit
    /\ dep = [d \in Deployers |-> Idle]
    /\ prev = [d \in Deployers |-> NoPrev]
    /\ runs = [d \in Deployers |-> 0]
    /\ faults = 0
    /\ wait = NoWait
    /\ calc = NoCalc
    /\ cli = NoCli

Reconcile(d) ==
    \/ CheckManager(d)
    \/ PruneList(d)
    \/ PruneOne(d)
    \/ ValidateSkip(d)
    \/ ValidateInspect(d)
    \/ NetList(d)
    \/ NetSkip(d)
    \/ NetCreate(d)
    \/ SecretInspect(d)
    \/ SecretUpdate(d)
    \/ SecretCreate(d)
    \/ ConfigInspect(d)
    \/ ConfigUpdate(d)
    \/ ConfigCreate(d)
    \/ ConvertOne(d)
    \/ SvcList(d)
    \/ SvcUpdate(d)
    \/ SvcCreate(d)
    \/ Return(d)

\* One deployer, any manifest without a configuration error, any options.
Next ==
    \/ StartDeploy(1, Manifests, BOOLEAN, ResolveImages)
    \/ Reconcile(1)

Spec == Init /\ [][Next]_vars

\* One deployer, the manifests with a configuration error.
NextConfig ==
    \/ StartDeploy(1, ConfigErrorManifests \cup {ProjectEdge}, BOOLEAN, ResolveImages)
    \/ Reconcile(1)

SpecConfig == Init /\ [][NextConfig]_vars

\* One deployer that repeats its run unchanged.
NextTwice ==
    \/ StartDeploy(1, Manifests, BOOLEAN, ResolveImages)
    \/ Redeploy(1)
    \/ Reconcile(1)

SpecTwice == Init /\ [][NextTwice]_vars

\* Two deployers on the same stack and a cluster that injects no errors.
InitConc ==
    /\ manager = TRUE
    /\ \E c \in {EmptyCluster, DeployedCluster} : ClusterIs(c)
    /\ dep = [d \in Deployers |-> Idle]
    /\ prev = [d \in Deployers |-> NoPrev]
    /\ runs = [d \in Deployers |-> 0]
    /\ faults = MaxFaults
    /\ wait = NoWait
    /\ calc = NoCalc
    /\ cli = NoCli

NextConc ==
    \E d \in Deployers :
        \/ StartDeploy(d, ConcManifests, BOOLEAN, {ResolveImageNever, ResolveImageAlways})
        \/ Reconcile(d)

SpecConc == InitConc /\ [][NextConc]_vars

\* The server commands, from an empty configuration.
SpecServer == Init /\ [][NextServer]_vars

\* One deployer, the manifests that label or name resources beyond the stack.
NextShared ==
    \/ StartDeploy(1, SharedManifests, BOOLEAN, ResolveImages)
    \/ Reconcile(1)

InitShared ==
    /\ manager = TRUE
    /\ \E c \in {EmptyCluster, DeployedCluster, SharedCluster} : ClusterIs(c)
    /\ dep = [d \in Deployers |-> Idle]
    /\ prev = [d \in Deployers |-> NoPrev]
    /\ runs = [d \in Deployers |-> 0]
    /\ faults = 0
    /\ wait = NoWait
    /\ calc = NoCalc
    /\ cli = NoCli

SpecShared == InitShared /\ [][NextShared]_vars

(***************************************************************************)
(* Capabilities.  Names are sequences of characters.                       *)
(***************************************************************************)
\* strings.ToUpper on the characters the names of the model are made of.
ToUpperChar(c) ==
    CASE c = "a" -> "A" [] c = "c" -> "C" [] c = "h" -> "H" [] c = "i" -> "I"
      [] c = "k" -> "K" [] c = "l" -> "L" [] c = "n" -> "N" [] c = "o" -> "O"
      [] c = "p" -> "P" [] c = "w" -> "W"
      [] OTHER -> c

ToUpper(s) == [i \in 1..Len(s) |-> ToUpperChar(s[i])]

\* strings.TrimSpace.
RECURSIVE TrimSpace(_)
TrimSpace(s) ==
    IF s = <<>> THEN s
    ELSE IF s[1] = " " THEN TrimSpace(Tail(s))
    ELSE IF s[Len(s)] = " " THEN TrimSpace(SubSeq(s, 1, Len(s) - 1))
    ELSE s

HasPrefix(s, prefix) ==
    Len(s) >= Len(prefix) /\ SubSeq(s, 1, Len(prefix)) = prefix

AllCapabilities == <<"A", "L", "L">>
CapPrefix == <<"C", "A", "P", "_">>

\* capabilitiesMap, lines 1056-1059: one name, normalized.
NormalizeCap(c) ==
    LET u == ToUpper(TrimSpace(c))
    IN  IF u # AllCapabilities /\ ~HasPrefix(u, CapPrefix) THEN CapPrefix \o u ELSE u

\* capabilitiesMap: the keys of the map.
capabilitiesMap(caps) == {NormalizeCap(caps[i]) : i \in 1..Len(caps)}

\* The order of sort.Strings on the upper-case names: byte by byte.
CharOrd(c) ==
    CASE c = " " -> 32 [] c = "/" -> 47 [] c = "=" -> 61
      [] c = "A" -> 65 [] c = "C" -> 67 [] c = "H" -> 72
      [] c = "I" -> 73 [] c = "K" -> 75 [] c = "L" -> 76 [] c = "N" -> 78
      [] c = "O" -> 79 [] c = "P" -> 80 [] c = "W" -> 87 [] c = "_" -> 95
      [] c = "a" -> 97 [] c = "b" -> 98 [] c = "c" -> 99 [] c = "d" -> 100
      [] c = "e" -> 101 [] c = "f" -> 102 [] c = "g" -> 103 [] c = "h" -> 104
      [] c = "i" -> 105 [] c = "k" -> 107 [] c = "l" -> 108 [] c = "m" -> 109
      [] c = "n" -> 110 [] c = "o" -> 111 [] c = "p" -> 112 [] c = "r" -> 114
      [] c = "s" -> 115 [] c = "t" -> 116 [] c = "w" -> 119

RECURSIVE StringLess(_, _)
StringLess(s, t) ==
    IF t = <<>> THEN FALSE
    ELSE IF s = <<>> THEN TRUE
    ELSE IF s[1] # t[1] THEN CharOrd(s[1]) < CharOrd(t[1])
    ELSE StringLess(Tail(s), Tail(t))

\* sort.Strings of the elements of a set.
RECURSIVE SortStrings(_)
SortStrings(S) ==
    IF S = {} THEN <<>>
    ELSE LET least == CHOOSE x \in S : \A y \in S \ {x} : StringLess(x, y)
         IN  <<least>> \o SortStrings(S \ {least})

\* A variant in which a dropped capability is taken out of the add set.
effectiveCapAddCapDropDropWins(add, drop) ==
    LET addCaps == IF AllCapabilities \in capabilitiesMap(add)
                   THEN {AllCapabilities} ELSE capabilitiesMap(add)
        dropCaps == IF AllCapabilities \in capabilitiesMap(drop)
                    THEN {AllCapabilities} ELSE capabilitiesMap(drop)
    IN  [capAdd |-> SortStrings(addCaps \ dropCaps), capDrop |-> SortStrings(dropCaps)]

effectiveCapAddCapDrop(add, drop) ==
    LET addCaps == IF AllCapabilities \in capabilitiesMap(add)
                   THEN {AllCapabilities} ELSE capabilitiesMap(add)
        dropCaps == IF AllCapabilities \in capabilitiesMap(drop)
                    THEN {AllCapabilities} ELSE capabilitiesMap(drop)
    IN  [capAdd |-> SortStrings(addCaps),
         capDrop |-> SortStrings({c \in dropCaps : c \notin addCaps})]

(***************************************************************************)
(* The order of the lists of a service spec.  A Go map is a function; a    *)
(* range statement visits its keys in an order chosen anew at every range, *)
(* which is a sequence holding every key once.                             *)
(***************************************************************************)
MaxKeys == 2

StackChars == <<"d", "e", "m", "o">>

\* The sequences that hold every element of S once.
Orderings(S) ==
    {o \in [1..Cardinality(S) -> S] :
        \A i, j \in 1..Cardinality(S) : i # j => o[i] # o[j]}

\* The orders in which range can visit the map m.
Iterations(m) == Orderings(DOMAIN m)

\* sort.Slice and sort.Strings on a slice of at most 12 elements (the Go
\* library's insertion sort): every element moves left while it is less than
\* its left neighbour.  less holds the pairs <<x, y>> with x less than y.
RECURSIVE insertionSort(_, _)
insertionSort(s, less) ==
    IF Len(s) <= 1 THEN s
    ELSE LET front == insertionSort(SubSeq(s, 1, Len(s) - 1), less)
             x == s[Len(s)]
             stops == {p \in 0..Len(front) :
                          \A q \in (p + 1)..Len(front) : <<x, front[q]>> \in less}
             at == CHOOSE p \in stops : \A k \in stops : p <= k
         IN  SubSeq(front, 1, at) \o <<x>> \o SubSeq(front, at + 1, Len(front))

\* convertService, lines 484-494: KEY=VALUE, or KEY alone for an unset value,
\* in the order of the range, then sort.Strings.
convertEnvironment(env, order) ==
    LET list == [i \in 1..Len(order) |->
                    IF env[order[i]].Set
                    THEN order[i] \o <<"=">> \o env[order[i]].Value
                    ELSE order[i]]
        elems == {list[i] : i \in 1..Len(list)}
    IN  insertionSort(list, {p \in elems \X elems : StringLess(p[1], p[2])})

\* container.NetworkMode(target).IsUserDefined() for a target given by its
\* characters.
IsUserDefinedTarget(target) ==
    target \notin {<<"d", "e", "f", "a", "u", "l", "t">>, <<"b", "r", "i", "d", "g", "e">>,
                   <<"h", "o", "s", "t">>, <<"n", "o", "n", "e">>}

\* convertService, lines 615-624: the target of the attachment to netName.
attachmentTarget(stack, networks, netName) ==
    LET declared == netName \in DOMAIN networks
        named == IF declared /\ networks[netName].Name # <<>>
                 THEN networks[netName].Name
                 ELSE stack \o <<"_">> \o netName
    IN  IF declared /\ networks[netName].External
        THEN (IF networks[netName].Name = <<>> THEN netName ELSE networks[netName].Name)
        ELSE named

\* convertService, lines 602-646: one attachment per key of svc.Networks in the
\* order of the range, then sort.Slice by Target (the services of this section
\* name declared networks only).
networkAttachments(stack, svc, networks, order) ==
    IF DOMAIN svc.Networks = {}
    THEN <<[Target |-> stack \o <<"_", "d", "e", "f", "a", "u", "l", "t">>,
            Aliases |-> <<svc.Name>>]>>
    ELSE LET list == [i \in 1..Len(order) |->
                        LET target == attachmentTarget(stack, networks, order[i])
                        IN  [Target |-> target,
                             Aliases |-> IF IsUserDefinedTarget(target)
                                         THEN svc.Networks[order[i]].Aliases \o <<svc.Name>>
                                         ELSE svc.Networks[order[i]].Aliases]]
             elems == {list[i] : i \in 1..Len(list)}
         IN  insertionSort(list, {p \in elems \X elems : StringLess(p[1].Target, p[2].Target)})

\* convertService, lines 510-515 and 559-564: the cluster name of a declared
\* secret or config.
referenceName(stack, declared, source) ==
    IF declared[source].Name # <<>> THEN declared[source].Name
    ELSE IF declared[source].External THEN source
    ELSE stack \o <<"_">> \o source

\* convertService, lines 504-551 and 647-649: one reference per entry of the
\* slice svc.Secrets, then sort.Slice by SecretName; ids holds the results of
\* lookupSecretID.
secretReferences(stack, refs, secrets, ids) ==
    LET list == [i \in 1..Len(refs) |->
                    LET secretName == referenceName(stack, secrets, refs[i].Source)
                    IN  [SecretID |-> ids[secretName], SecretName |-> secretName,
                         Target |-> IF refs[i].Target = <<>> THEN refs[i].Source
                                    ELSE refs[i].Target]]
        elems == {list[i] : i \in 1..Len(list)}
    IN  insertionSort(list, {p \in elems \X elems :
                                StringLess(p[1].SecretName, p[2].SecretName)})

\* convertService, lines 553-600 and 650-652: the same for svc.Configs, whose
\* default target is "/" and the source.
configReferences(stack, refs, configs, ids) ==
    LET list == [i \in 1..Len(refs) |->
                    LET configName == referenceName(stack, configs, refs[i].Source)
                    IN  [ConfigID |-> ids[configName], ConfigName |-> configName,
                         Target |-> IF refs[i].Target = <<>> THEN <<"/">> \o refs[i].Source
                                    ELSE refs[i].Target]]
        elems == {list[i] : i \in 1..Len(list)}
    IN  insertionSort(list, {p \in elems \X elems :
                                StringLess(p[1].ConfigName, p[2].ConfigName)})

\* convertUlimits: one entry per key in the order of the range, then sort.Slice
\* by Name.
convertUlimits(ulimits, order) ==
    IF DOMAIN ulimits = {} THEN <<>>
    ELSE LET list == [i \in 1..Len(order) |->
                        LET u == ulimits[order[i]]
                        IN  IF u.Single # 0
                            THEN [Name |-> order[i], Soft |-> u.Single, Hard |-> u.Single]
                            ELSE [Name |-> order[i], Soft |-> u.Soft, Hard |-> u.Hard]]
             elems == {list[i] : i \in 1..Len(list)}
         IN  insertionSort(list, {p \in elems \X elems : StringLess(p[1].Name, p[2].Name)})

\* convertExtraHosts: "ip hostname" for every address of every host name, in
\* the order of the range; the list is returned as it was appended.
RECURSIVE convertExtraHosts(_, _)
convertExtraHosts(extraHosts, order) ==
    IF order = <<>> THEN <<>>
    ELSE [i \in 1..Len(extraHosts[Head(order)]) |->
             extraHosts[Head(order)][i] \o " " \o Head(order)]
         \o convertExtraHosts(extraHosts, Tail(order))

\* convertService, lines 702-727: the published port is parsed (0 when it is
\* not a number), then sort.Slice by published port and then target port.
portConfigs(ports) ==
    LET list == [i \in 1..Len(ports) |->
                    [TargetPort |-> ports[i].Target,
                     PublishedPort |-> ParseUint(ports[i].Published).value,
                     Protocol |-> ports[i].Protocol]]
        elems == {list[i] : i \in 1..Len(list)}
    IN  insertionSort(list,
            {p \in elems \X elems :
                IF p[1].PublishedPort # p[2].PublishedPort
                THEN p[1].PublishedPort < p[2].PublishedPort
                ELSE p[1].TargetPort < p[2].TargetPort})

\* convertService: the lists of the spec it builds for svc; it holds the order
\* of each of its range statements over a map.
convertServiceLists(stack, svc, networks, secrets, configs, ids, it) ==
    [Env |-> convertEnvironment(svc.Environment, it.Environment),
     Hosts |-> convertExtraHosts(svc.ExtraHosts, it.ExtraHosts),
     Ulimits |-> convertUlimits(svc.Ulimits, it.Ulimits),
     CapabilityAdd |-> effectiveCapAddCapDrop(svc.CapAdd, svc.CapDrop).capAdd,
     CapabilityDrop |-> effectiveCapAddCapDrop(svc.CapAdd, svc.CapDrop).capDrop,
     Secrets |-> secretReferences(stack, svc.Secrets, secrets, ids),
     Configs |-> configReferences(stack, svc.Configs, configs, ids),
     Networks |-> networkAttachments(stack, svc, networks, it.Networks),
     Ports |-> portConfigs(svc.Ports)]

\* The orders of the four range statements over the maps of svc.
IterationOrders(svc) ==
    [Environment : Iterations(svc.Environment), Networks : Iterations(svc.Networks),
     Ulimits : Iterations(svc.Ulimits), ExtraHosts : Iterations(svc.ExtraHosts)]

(***************************************************************************)
(* Volume mounts.  Sources and names are sequences of characters.          *)
(***************************************************************************)
NoMount == [err |-> "", Type |-> "", Source |-> <<>>, VolumeOptions |-> FALSE,
            Labels |-> EmptyMap]

GroupPrefix == <<"g", "r", "o", "u", "p", ":">>

\* handleClusterVolume: a volume group is taken as it is; a declared volume
\* gets its explicit name or else its scoped name.
handleClusterVolume(vol, volumes, stack) ==
    LET m == [NoMount EXCEPT !.Type = vol.Type, !.Source = vol.Source]
    IN  IF HasPrefix(vol.Source, GroupPrefix) THEN m
        ELSE IF vol.Source \notin DOMAIN volumes
        THEN [NoMount EXCEPT !.err = "undefined volume"]
        ELSE IF volumes[vol.Source].Name # <<>>
        THEN [m EXCEPT !.Source = volumes[vol.Source].Name]
        ELSE [m EXCEPT !.Source = stack \o <<"_">> \o vol.Source]

\* convertVolumeToMount: err is "" on success.  Lines 1128-1143: the source
\* is first set to ScopeName(stack, vol.Source), then to the volume's explicit
\* name if it has one, and an external volume returns with that source.
convertVolumeToMount(vol, volumes, stack) ==
    LET m == [NoMount EXCEPT !.Type = vol.Type, !.Source = vol.Source]
    IN  CASE vol.Type \in {"bind", "tmpfs", "npipe", "image"} -> m
          [] vol.Type = "cluster" -> handleClusterVolume(vol, volumes, stack)
          [] vol.Type \in {"volume", ""} ->
               IF vol.Source = <<>> THEN m
               ELSE IF vol.Source \notin DOMAIN volumes
               THEN [NoMount EXCEPT !.err = "undefined volume"]
               ELSE LET stackVolume == volumes[vol.Source]
                        named == [m EXCEPT
                                    !.Source = IF stackVolume.Name # <<>>
                                               THEN stackVolume.Name
                                               ELSE stack \o <<"_">> \o vol.Source,
                                    !.VolumeOptions = TRUE]
                    IN  IF stackVolume.External THEN named
                        ELSE [named EXCEPT !.Labels = AddStackLabel(stack, stackVolume.Labels)]
          [] OTHER -> [NoMount EXCEPT !.err = "unsupported volume type"]

(***************************************************************************)
(* The functions of the package on their own: one application to arguments *)
(* drawn from the sets below.                                              *)
(***************************************************************************)
Calc(fn, args, out) == [fn |-> fn, args |-> args, out |-> out]

Apply(c) ==
    /\ calc = NoCalc
    /\ calc' = c
    /\ UNCHANGED <<cluster, dep, prev, runs, faults, wait, cli>>

LogicalNames == {"cred", "nginx", "env"}
Contents ==
    {"secret123", "hunter2", "listen 80;", "DB_PASSWORD=secret123\n",
     "token-6170", "token-44637"}

\* hashedName for one logical name and two contents.
ApplyHashedName ==
    /\ calc = NoCalc
    /\ \E name \in LogicalNames, c1, c2 \in Contents :
          Apply(Calc("hashedName", <<name, c1, c2>>,
                     <<hashedName(name, c1), hashedName(name, c2)>>))

\* The secrets a sensitive entry may list: a source that the store holds or
\* lacks, under its own name or under an output name.
SensitiveSecrets ==
    [Source : DOMAIN VaultValues \cup {"absent"}, Name : {"", "out"}]

NeededLists == UNION {[1..n -> SensitiveSecrets] : n \in 0..MaxNeeded}

\* FormatSecretsForSensitive for the raw format.
ApplyFormatRaw ==
    /\ calc = NoCalc
    /\ \E needed \in NeededLists :
          Apply(Calc("FormatSecretsForSensitive", <<needed>>,
                     FormatSecretsForSensitive(VaultValues, needed, SecretOutputRaw)))

\* The capability names a manifest may give.
CapNames ==
    {<<"a", "l", "l">>, <<"A", "L", "L">>,
     <<"k", "i", "l", "l">>, <<"C", "A", "P", "_", "K", "I", "L", "L">>,
     <<" ", "K", "i", "l", "l", " ">>,
     <<"c", "h", "o", "w", "n">>, <<"c", "a", "p", "_", "c", "h", "o", "w", "n">>}

CapLists == UNION {[1..n -> CapNames] : n \in 0..MaxCaps}

ApplyCapAddCapDrop ==
    /\ calc = NoCalc
    /\ \E add, drop \in CapLists :
          Apply(Calc("effectiveCapAddCapDrop", <<add, drop>>,
                     effectiveCapAddCapDrop(add, drop)))

\* The manifest entries a service of this section is built from: a service
\* of size n has the first n entries of every pool.
EnvPool ==
    <<[Key |-> <<"L", "O", "C", "A", "L">>, Set |-> TRUE, Value |-> <<"o", "n">>],
      [Key |-> <<"C", "I">>, Set |-> FALSE, Value |-> <<>>],
      [Key |-> <<"A", "P", "I">>, Set |-> TRUE, Value |-> <<"k">>]>>

\* Two of the networks are declared with the same cluster name.
NetPool ==
    <<[Key |-> <<"w", "a", "n">>, Name |-> <<"l", "i", "n", "k">>, External |-> FALSE,
       Aliases |-> <<"edge">>],
      [Key |-> <<"l", "a", "n">>, Name |-> <<"l", "i", "n", "k">>, External |-> FALSE,
       Aliases |-> <<"inner">>],
      [Key |-> <<"i", "p", "c">>, Name |-> <<>>, External |-> FALSE, Aliases |-> <<>>]>>

UlimitPool ==
    <<[Key |-> <<"n", "p", "r", "o", "c">>, Single |-> 512, Soft |-> 0, Hard |-> 0],
      [Key |-> <<"n", "o", "f", "i", "l", "e">>, Single |-> 0, Soft |-> 1024, Hard |-> 2048],
      [Key |-> <<"c", "o", "r", "e">>, Single |-> 0, Soft |-> 0, Hard |-> 0]>>

HostPool ==
    <<[Key |-> "db", Ips |-> <<"10.0.0.1">>],
      [Key |-> "cache", Ips |-> <<"10.0.0.2", "10.0.0.3">>],
      [Key |-> "api", Ips |-> <<"10.0.0.4">>]>>

SecretPool ==
    <<[Key |-> <<"t", "o", "k">>, Name |-> <<>>, External |-> FALSE],
      [Key |-> <<"p", "i", "n">>, Name |-> <<>>, External |-> TRUE],
      [Key |-> <<"a", "p", "i">>, Name |-> <<"a", "p", "i", "k">>, External |-> FALSE]>>

ConfigPool ==
    <<[Key |-> <<"w", "e", "b">>, Name |-> <<>>, External |-> FALSE],
      [Key |-> <<"a", "p", "p">>, Name |-> <<>>, External |-> TRUE],
      [Key |-> <<"l", "o", "g">>, Name |-> <<"l", "o", "g", "s">>, External |-> FALSE]>>

PortPool ==
    <<[Target |-> 80, Published |-> <<"8", "0", "8", "0">>, Protocol |-> "tcp"],
      [Target |-> 443, Published |-> <<"8", "0">>, Protocol |-> "tcp"],
      [Target |-> 53, Published |-> <<>>, Protocol |-> "udp"]>>

CapAddPool == <<<<"k", "i", "l", "l">>, <<"c", "h", "o", "w", "n">>, <<"a", "l", "l">>>>
CapDropPool == <<<<"C", "A", "P", "_", "C", "H", "O", "W", "N">>, <<"A", "L", "L">>,
                 <<"k", "i", "l", "l">>>>

Take(pool, n) == SubSeq(pool, 1, IF n < Len(pool) THEN n ELSE Len(pool))

\* The map whose keys are the Key fields of the entries.
MapOf(entries) ==
    [k \in {entries[i].Key : i \in 1..Len(entries)} |->
        entries[CHOOSE i \in 1..Len(entries) : entries[i].Key = k]]

Reverse(s) == [i \in 1..Len(s) |-> s[Len(s) + 1 - i]]

\* The orders in which the manifest may list the entries of a slice.
SliceOrders(s) == {s, Reverse(s)}

\* types.Project: the declarations of the manifest.
DeclaredNetworks == MapOf(NetPool)
DeclaredSecrets == MapOf(SecretPool)
DeclaredConfigs == MapOf(ConfigPool)

\* lookupSecretID and lookupConfigID: every declared object is found.
LookupIDs ==
    [name \in {referenceName(StackChars, DeclaredSecrets, k) : k \in DOMAIN DeclaredSecrets}
              \cup {referenceName(StackChars, DeclaredConfigs, k) : k \in DOMAIN DeclaredConfigs}
        |-> <<"i", "d", "_">> \o name]

\* types.ServiceConfig with n entries in every map and list.
ServiceOfSize(n, secrets, configs, ports) ==
    [Name |-> "web",
     Environment |-> MapOf(Take(EnvPool, n)),
     Networks |-> MapOf(Take(NetPool, n)),
     Ulimits |-> MapOf(Take(UlimitPool, n)),
     ExtraHosts |-> [h \in DOMAIN MapOf(Take(HostPool, n)) |-> MapOf(Take(HostPool, n))[h].Ips],
     CapAdd |-> Take(CapAddPool, n),
     CapDrop |-> Take(CapDropPool, n),
     Secrets |-> [i \in 1..Len(secrets) |-> [Source |-> secrets[i].Key, Target |-> <<>>]],
     Configs |-> [i \in 1..Len(configs) |-> [Source |-> configs[i].Key, Target |-> <<>>]],
     Ports |-> ports]

\* convertService for one service, under one order of each of its ranges.
ApplyConvertService ==
    calc = NoCalc /\ \E n \in 0..MaxKeys :
        \E secrets \in SliceOrders(Take(SecretPool, n)),
           configs \in SliceOrders(Take(ConfigPool, n)),
           ports \in SliceOrders(Take(PortPool, n)) :
            LET svc == ServiceOfSize(n, secrets, configs, ports)
            IN  \E it \in IterationOrders(svc) :
                    Apply(Calc("convertService", <<svc>>,
                               convertServiceLists(StackChars, svc, DeclaredNetworks,
                                                   DeclaredSecrets, DeclaredConfigs,
                                                   LookupIDs, it)))

\* types.Volumes: an internal and an external volume without a name of
\* their own, and one of each with one.
DeclaredVolumes ==
    (<<"d", "a", "t", "a">> :> [Name |-> <<>>, External |-> FALSE, Labels |-> EmptyMap])
    @@ (<<"l", "o", "g">> :> [Name |-> <<"l", "o", "g", "s">>, External |-> FALSE,
                              Labels |-> EmptyMap])
    @@ (<<"n", "a", "s">> :> [Name |-> <<>>, External |-> TRUE, Labels |-> EmptyMap])
    @@ (<<"p", "o", "o", "l">> :> [Name |-> <<"t", "a", "n", "k">>, External |-> TRUE,
                                   Labels |-> EmptyMap])

\* types.ServiceVolumeConfig: the mounts a service may ask for.
VolumeTypes == {"", "volume", "bind", "tmpfs", "cluster", "nfs"}
VolumeSources ==
    DOMAIN DeclaredVolumes
    \cup {<<>>, <<"g", "o", "n", "e">>, <<"/", "s", "r", "v">>, GroupPrefix \o <<"a">>}

\* convertVolumeToMount for one mount.
ApplyConvertVolume ==
    /\ calc = NoCalc
    /\ \E vol \in [Type : VolumeTypes, Source : VolumeSources] :
          Apply(Calc("convertVolumeToMount", <<vol>>,
                     convertVolumeToMount(vol, DeclaredVolumes, StackChars)))

(***************************************************************************)
(* processSensitiveSecrets and the file part of a secret reference, with    *)
(* the references of a service as the slice the code appends to.            *)
(***************************************************************************)
\* An unset *uint32, and one that is set.
NoMode == [Set |-> FALSE, Value |-> 0]
ModeOf(v) == [Set |-> TRUE, Value |-> v]

\* 0o444
DefaultSecretMode == 292

\* types.SensitiveConfig with the attributes of the file.
SensitiveFile(format, secrets, target, uid, gid, mode) ==
    [Format |-> format, Secrets |-> secrets, Target |-> target,
     UID |-> uid, GID |-> gid, Mode |-> mode]

\* types.ServiceSecretConfig
SecretRef(source, target, uid, gid, mode) ==
    [Source |-> source, Target |-> target, UID |-> uid, GID |-> gid, Mode |-> mode]

\* processSensitiveSecrets over the entries work = <<service key, entry name>>
\* in the order the two ranges visit them: the secret is stored in the map
\* under its generated name, replacing what the name held, and a reference is
\* appended to the service.  On an error the references appended to the
\* service at hand are lost, since its copy is never stored back.
RECURSIVE processSensitiveSecretsLists(_, _, _, _)
processSensitiveSecretsLists(given, project, allSecrets, work) ==
    IF work = <<>> THEN [err |-> "", project |-> project]
    ELSE LET s == work[1][1]
             name == work[1][2]
             sensitive == project.Services[s].Sensitive[name]
             res == FormatSecretsForSensitive(allSecrets, sensitive.Secrets, sensitive.Format)
             secretName == hashedName(name, res.content)
         IN  IF res.err # ""
             THEN [err |-> "failed to format sensitive secrets",
                   project |-> [project EXCEPT !.Services[s] = given.Services[s]]]
             ELSE processSensitiveSecretsLists(given,
                    [project EXCEPT
                       !.Secrets = (secretName :> [Content |-> res.content]) @@ @,
                       !.Services[s].Secrets =
                           Append(@, SecretRef(secretName, sensitive.Target, sensitive.UID,
                                               sensitive.GID, sensitive.Mode))],
                    allSecrets, Tail(work))

\* A variant that hands the attributes on as the reference gives them.
secretFileAsGiven(ref) ==
    [Name |-> ref.Target, UID |-> ref.UID, GID |-> ref.GID, Mode |-> ref.Mode.Value]

\* convertService, lines 520-549: the File of the swarm.SecretReference.
secretFile(ref) ==
    [Name |-> IF ref.Target = "" THEN ref.Source ELSE ref.Target,
     UID |-> IF ref.UID = "" THEN "0" ELSE ref.UID,
     GID |-> IF ref.GID = "" THEN "0" ELSE ref.GID,
     Mode |-> IF ref.Mode.Set THEN ref.Mode.Value ELSE DefaultSecretMode]

\* The store: two of its values have digests with the same first 8 characters.
SensitiveValues ==
    VaultValues @@ ("t1" :> "token-6170") @@ ("t2" :> "token-44637")

Needs(source, name) == <<[Source |-> source, Name |-> name]>>

\* The entries a service may have under the names cred and env.
CredEntries ==
    {SensitiveFile(SecretOutputRaw, Needs("db_password", ""), "", "", "", NoMode),
     SensitiveFile(SecretOutputRaw, Needs("db_password", ""), "/run/cred", "1000", "1000",
                   ModeOf(256)),
     SensitiveFile(SecretOutputRaw, Needs("t1", ""), "", "", "", NoMode),
     SensitiveFile(SecretOutputRaw, Needs("t2", ""), "", "1000", "", ModeOf(0)),
     SensitiveFile(SecretOutputRaw, Needs("absent", ""), "", "", "", NoMode)}

EnvEntries ==
    {SensitiveFile(SecretOutputEnv, Needs("db_password", "DB_PASSWORD"), "", "", "", NoMode),
     SensitiveFile("", Needs("db_password", "DB_PASSWORD"), "/app/.env", "", "33", ModeOf(256))}

SensitiveMaps ==
    {EmptyMap} \cup {("cred" :> c) : c \in CredEntries} \cup {("env" :> e) : e \in EnvEntries}
    \cup {("cred" :> c) @@ ("env" :> e) : c \in CredEntries, e \in EnvEntries}

\* A manifest of two services; web refers to a declared secret already.
SensitiveProject(web, db) ==
    [Services |-> ("web" :> [Name |-> "web", Sensitive |-> web,
                             Secrets |-> <<SecretRef("tok", "", "", "", NoMode)>>])
                  @@ ("db" :> [Name |-> "db", Sensitive |-> db, Secrets |-> <<>>]),
     Secrets |-> ("tok" :> [Content |-> "hunter2"])]

\* The entries of service s in the order o.
EntriesOf(s, o) == [i \in 1..Len(o) |-> <<s, o[i]>>]

\* processSensitiveSecrets and, when it succeeds, the File of every reference
\* of every service.
ApplyProcessSensitive ==
    /\ calc = NoCalc
    /\ \E web, db \in SensitiveMaps :
          \E ow \in Iterations(web), od \in Iterations(db), webFirst \in BOOLEAN :
             LET project == SensitiveProject(web, db)
                 work == IF webFirst THEN EntriesOf("web", ow) \o EntriesOf("db", od)
                         ELSE EntriesOf("db", od) \o EntriesOf("web", ow)
                 res == processSensitiveSecretsLists(project, project, SensitiveValues, work)
             IN  Apply(Calc("processSensitiveSecrets", <<project>>,
                            [err |-> res.err, project |-> res.project,
                             files |-> [s \in DOMAIN res.project.Services |->
                                          [i \in 1..Len(res.project.Services[s].Secrets) |->
                                              secretFile(res.project.Services[s].Secrets[i])]]]))

NextPure ==
    \/ ApplyHashedName
    \/ ApplyFormatRaw
    \/ ApplyCapAddCapDrop
    \/ ApplyConvertService
    \/ ApplyConvertVolume
    \/ ApplyProcessSensitive

InitPure ==
    /\ manager = TRUE
    /\ ClusterIs(EmptyCluster)
    /\ dep = [d \in Deployers |-> Idle]
    /\ prev = [d \in Deployers |-> NoPrev]
    /\ runs = [d \in Deployers |-> 0]
    /\ faults = 0
    /\ wait = NoWait
    /\ calc = NoCalc
    /\ cli = NoCli

SpecPure == InitPure /\ [][NextPure]_vars

\* One waitOnServices call, its context and the polls the cluster answers.
NextWait ==
    \/ WaitStart
    \/ Cancel
    \/ Expire
    \/ CtxDone
    \/ TimedOut
    \/ Poll

SpecWait == Init /\ [][NextWait]_vars

(***************************************************************************)
(* Properties.                                                             *)
(***************************************************************************)
Calls(d) == dep[d].calls
Ops(d, ops) == {i \in 1..Len(Calls(d)) : Calls(d)[i].op \in ops}

CreateOps == {"NetworkCreate", "SecretCreate", "ConfigCreate", "ServiceCreate"}
UpdateOps == {"SecretUpdate", "ConfigUpdate", "ServiceUpdate"}
MutatingOps == CreateOps \cup UpdateOps \cup {"ServiceRemove"}
ServiceOps == {"ServiceCreate", "ServiceUpdate"}

Finished(d) == dep[d].pc = "done"
Succeeded(d) == Finished(d) /\ dep[d].err = NoErr
Failed(d) == Finished(d) /\ dep[d].err # NoErr

\* The scoped names of the services the manifest of d's run declares.
Declared(d) ==
    {ScopeName(dep[d].opts.Stack, dep[d].manifest.Services[s].Name) :
        s \in DOMAIN dep[d].manifest.Services}

KindRank(op) ==
    CASE op = "NetworkCreate" -> 1
      [] op \in {"SecretCreate", "SecretUpdate"} -> 2
      [] op \in {"ConfigCreate", "ConfigUpdate"} -> 3
      [] op \in ServiceOps -> 4
      [] OTHER -> 0

\* C1: within a run the creating and updating calls come in the order
\* networks, secrets, configs, services, and once such a call has failed no
\* call of a later kind follows it.
C1_KindOrder ==
    \A d \in Deployers :
        \A i, j \in Ops(d, CreateOps \cup UpdateOps) :
            i < j =>
                /\ KindRank(Calls(d)[i].op) <= KindRank(Calls(d)[j].op)
                /\ ~Calls(d)[i].ok => KindRank(Calls(d)[j].op) <= KindRank(Calls(d)[i].op)

\* C1 witness: a run that created a network, a secret and a config, and then
\* failed on a service call.
C1_Witness ==
    \E d \in Deployers :
        /\ Failed(d)
        /\ \A k \in 1..3 : \E i \in Ops(d, CreateOps \cup UpdateOps) :
                              KindRank(Calls(d)[i].op) = k
        /\ \E i \in Ops(d, ServiceOps) : ~Calls(d)[i].ok

\* C2: the prune pass removes a listed service only if the manifest does not
\* declare it.
C2_PruneSparesDeclared ==
    \A d \in Deployers :
        \A i \in Ops(d, {"ServiceRemove"}) : Calls(d)[i].name \notin Declared(d)

\* C3: a Deploy of a manifest with a configuration error fails, and has issued
\* no create, update or remove call.
C3_ConfigErrorBeforeMutation ==
    \A d \in Deployers :
        (Finished(d) /\ dep[d].manifest \in ConfigErrorManifests) =>
            /\ dep[d].err # NoErr
            /\ Ops(d, MutatingOps) = {}

\* The user-defined external networks the manifest's services use that the
\* cluster lacks or holds in another scope than swarm.
ExternalUsed(m) ==
    {ExternalNetworkName(m.Networks, n) :
        n \in {x \in DOMAIN m.Networks :
                 m.Networks[x].External /\ x \in GetServicesDeclaredNetworks(m.Services)}}

BadExternal(d) ==
    {n \in ExternalUsed(dep[d].manifest) :
        IsUserDefined(n) /\ (n \notin DOMAIN clNetworks \/ clNetworks[n].Scope # "swarm")}

ExternalErrors ==
    {"is declared as external, but could not be found",
     "is declared as external, but it is not in the right scope"}

\* C4: with a missing or wrongly scoped external network the run issues no
\* create call and ends in an error; when the manager check passed and no call
\* returned an injected error, the error is the validation's and names such a
\* network.
C4_ExternalNetworkChecked ==
    \A d \in Deployers :
        (dep[d].pc # "idle" /\ BadExternal(d) # {}) =>
            /\ Ops(d, CreateOps) = {}
            /\ Finished(d) => dep[d].err # NoErr
            /\ (Finished(d) /\ manager /\ faults = 0) =>
                   /\ dep[d].err.msg \in ExternalErrors
                   /\ dep[d].err.subject \in BadExternal(d)

C4_Witness ==
    \E d \in Deployers :
        /\ Failed(d)
        /\ dep[d].err = Error("is declared as external, but it is not in the right scope", "edge")
        /\ "edge" \in BadExternal(d)

\* C5: the first cluster call of a run is Info and no later call is; on a node
\* without control the run ends in an error right after it.
C5_ManagerCheckedFirst ==
    \A d \in Deployers :
        /\ Calls(d) # <<>> => Calls(d)[1].op = "Info"
        /\ \A i \in Ops(d, {"Info"}) : i = 1
        /\ (~manager /\ dep[d].pc \notin {"idle", "info"}) =>
               /\ Failed(d)
               /\ Len(Calls(d)) <= 1

C5_Witness ==
    \E d \in Deployers :
        /\ ~manager
        /\ Failed(d)
        /\ dep[d].err.msg = "this node is not a swarm manager"
        /\ Len(Calls(d)) = 1

\* The second of two runs with the same manifest and options, both successful.
Repeated(d) ==
    /\ Succeeded(d)
    /\ prev[d].ran /\ prev[d].ok
    /\ prev[d].manifest = dep[d].manifest
    /\ prev[d].opts = dep[d].opts

\* C6 as stated: the second of two unchanged runs issues no ServiceUpdate.
C6_NoUpdateWhenUnchanged ==
    \A d \in Deployers : Repeated(d) => Ops(d, {"ServiceUpdate"}) = {}

\* C6: without prune, the second of two unchanged runs issues one
\* ServiceUpdate for every declared service and no ServiceCreate; each update
\* carries the ForceUpdate counter the first run left, and the specs the
\* services hold afterwards are the ones the first run left.
C6_SecondRunUpdatesInPlace ==
    \A d \in Deployers :
        (Repeated(d) /\ ~dep[d].opts.Prune) =>
            /\ Ops(d, {"ServiceCreate"}) = {}
            /\ \A n \in Declared(d) :
                 /\ Cardinality({i \in Ops(d, {"ServiceUpdate"}) : Calls(d)[i].name = n}) = 1
                 /\ n \in DOMAIN clServices
                 /\ clServices[n].Spec = prev[d].services[n].Spec
            /\ \A i \in Ops(d, {"ServiceUpdate"}) :
                 Calls(d)[i].force = prev[d].services[Calls(d)[i].name].Spec.ForceUpdate

C6_Witness ==
    \E d \in Deployers :
        /\ Repeated(d) /\ ~dep[d].opts.Prune
        /\ \E i \in Ops(d, {"ServiceUpdate"}) : Calls(d)[i].ok /\ Calls(d)[i].force > 0

\* C7: a run issues at most one creating or updating call per declared
\* service, an update of the listed ID when the listing holds the scoped name
\* and a create otherwise; a successful run has issued one for every declared
\* service and returns their IDs.
C7_OneCallPerService ==
    \A d \in Deployers :
        /\ \A i \in Ops(d, ServiceOps) :
             /\ Calls(d)[i].name \in Declared(d)
             /\ \A j \in Ops(d, ServiceOps) : Calls(d)[j].name = Calls(d)[i].name => j = i
             /\ Calls(d)[i].op = "ServiceUpdate" <=> Calls(d)[i].name \in DOMAIN dep[d].listing
             /\ Calls(d)[i].op = "ServiceUpdate" =>
                    Calls(d)[i].id = dep[d].listing[Calls(d)[i].name].ID
        /\ Succeeded(d) =>
             /\ \A n \in Declared(d) : \E i \in Ops(d, ServiceOps) : Calls(d)[i].name = n
             /\ Len(dep[d].serviceIDs) = Cardinality(Declared(d))
             /\ {dep[d].serviceIDs[k] : k \in 1..Len(dep[d].serviceIDs)} =
                    {Calls(d)[i].id : i \in Ops(d, ServiceOps)}

C7_Witness ==
    \E d \in Deployers :
        /\ Succeeded(d)
        /\ Ops(d, {"ServiceUpdate"}) # {}
        /\ Ops(d, {"ServiceCreate"}) # {}
        /\ Len(dep[d].serviceIDs) = 2

\* The image the manifest gives the service of that scoped name.
DesiredImage(d, name) ==
    LET services == dep[d].manifest.Services
        s == CHOOSE x \in DOMAIN services :
                 ScopeName(dep[d].opts.Stack, services[x].Name) = name
    IN  services[s].Image

\* C8: the registry flag and the image of every service call follow the
\* resolve-image policy.
C8_ResolveImagePolicy ==
    \A d \in Deployers : \A i \in Ops(d, ServiceOps) :
        LET c == Calls(d)[i]
            policy == dep[d].opts.ResolveImage
            want == DesiredImage(d, c.name)
        IN  IF c.op = "ServiceCreate"
            THEN c.query <=> policy \in {ResolveImageAlways, ResolveImageChanged}
            ELSE LET existing == dep[d].listing[c.name].Spec
                     label == existing.Labels[LabelImage]
                 IN  CASE policy = ResolveImageAlways -> c.query /\ c.image = want
                       [] policy = ResolveImageChanged ->
                            /\ c.query <=> want # label
                            /\ c.image = IF want = label THEN existing.Image ELSE want
                       [] OTHER ->
                            /\ ~c.query
                            /\ c.image = IF want = label THEN existing.Image ELSE want

C8_Witness ==
    \E d \in Deployers : \E i \in Ops(d, {"ServiceUpdate"}) :
        LET c == Calls(d)[i]
            existing == dep[d].listing[c.name].Spec
        IN  /\ dep[d].opts.ResolveImage = ResolveImageChanged
            /\ DesiredImage(d, c.name) = existing.Labels[LabelImage]
            /\ c.image = existing.Image
            /\ c.image # DesiredImage(d, c.name)
            /\ ~c.query /\ c.ok

\* C9: every ServiceUpdate carries the version and the ForceUpdate counter of
\* the service as the listing showed it.
C9_UpdateCarriesListed ==
    \A d \in Deployers : \A i \in Ops(d, {"ServiceUpdate"}) :
        /\ Calls(d)[i].version = dep[d].listing[Calls(d)[i].name].Version
        /\ Calls(d)[i].force = dep[d].listing[Calls(d)[i].name].Spec.ForceUpdate

C9_Witness ==
    \E d \in Deployers : \E i \in Ops(d, {"ServiceUpdate"}) :
        /\ Calls(d)[i].ok
        /\ Calls(d)[i].version > 1
        /\ Calls(d)[i].force > 0
        /\ dep[d].specs # EmptyMap

\* C10: an update carries the version its run read; it is applied only when
\* the object still holds that version, and when the object has moved on the
\* update is rejected and ends the run in an error.
C10_StaleUpdateRejected ==
    \A d \in Deployers : \A i \in Ops(d, UpdateOps) :
        LET c == Calls(d)[i]
        IN  /\ c.version = c.listed
            /\ c.ok => c.current = c.listed
            /\ c.current # c.listed =>
                   /\ ~c.ok
                   /\ i = Len(Calls(d))
                   /\ Failed(d)

\* C10 witness: a run's ServiceUpdate is rejected for a service the other run
\* has updated since this run listed it.
C10_Witness ==
    \E d, e \in Deployers : \E i \in Ops(d, {"ServiceUpdate"}) :
        /\ d # e
        /\ Calls(d)[i].current > Calls(d)[i].listed
        /\ ~Calls(d)[i].ok
        /\ Failed(d)
        /\ \/ \E j \in Ops(e, {"ServiceUpdate"}) :
                 Calls(e)[j].ok /\ Calls(e)[j].name = Calls(d)[i].name
           \/ /\ prev[e].ran /\ prev[e].ok
              /\ Calls(d)[i].name \in DOMAIN prev[e].services

\* The prune pass of d's run has listed the services and gone through them.
Pruned(d) ==
    /\ dep[d].opts.Prune
    /\ dep[d].pc \notin {"idle", "info", "pruneList", "pruneLoop"}
    /\ Len(Calls(d)) >= 2
    /\ Calls(d)[2].op = "ServiceList" /\ Calls(d)[2].ok

\* C11: once the prune pass is through, a removal has been attempted for
\* every listed service the manifest does not declare, whatever removals
\* failed before it, and the pass has returned an error iff a removal failed.
C11_PruneJoinsErrors ==
    \A d \in Deployers :
        Pruned(d) =>
            /\ \A n \in DOMAIN dep[d].pruneItems \ Declared(d) :
                 \E i \in Ops(d, {"ServiceRemove"}) :
                     /\ Calls(d)[i].name = n
                     /\ Calls(d)[i].id = dep[d].pruneItems[n].ID
            /\ (\E i \in Ops(d, {"ServiceRemove"}) : ~Calls(d)[i].ok)
                   <=> (Failed(d) /\ dep[d].err.msg = "failed to remove services")

\* C11 witness: a removal failed, a later removal was still attempted and
\* succeeded, and the pass returned the error.
C11_Witness ==
    \E d \in Deployers :
        /\ Pruned(d)
        /\ \E i, j \in Ops(d, {"ServiceRemove"}) :
             i < j /\ ~Calls(d)[i].ok /\ Calls(d)[j].ok
        /\ dep[d].err.msg = "failed to remove services"

\* Every NetworkCreate of a run is for a desired internal network that the
\* run's listing of the stack's networks did not show.
CreatesOnlyUnlisted ==
    \A d \in Deployers : \A i \in Ops(d, {"NetworkCreate"}) :
        /\ Calls(d)[i].name \in DOMAIN dep[d].plan.create
        /\ Calls(d)[i].name \notin dep[d].existingNetworks
        /\ Calls(d)[i].ok => Calls(d)[i].name \in DOMAIN clNetworks

\* A network the cluster holds stays, as it is.
NetworksKept ==
    \A n \in DOMAIN clNetworks :
        n \in DOMAIN clNetworks' /\ clNetworks'[n] = clNetworks[n]

\* C12: NetworkCreate is issued only for a desired internal network absent
\* from the stack's network listing, no step changes or removes a network the
\* cluster holds, and the second of two unchanged runs issues no
\* NetworkCreate.
C12_NetworksCreatedOnce ==
    [][/\ NetworksKept
       /\ CreatesOnlyUnlisted'
       /\ \A d \in Deployers : Repeated(d)' => Ops(d, {"NetworkCreate"})' = {}]_vars

\* C12 witness: the second of two unchanged runs found its desired networks
\* in the listing and is through.
C12_Witness ==
    \E d \in Deployers :
        /\ Repeated(d)
        /\ DOMAIN dep[d].plan.create # {}
        /\ DOMAIN dep[d].plan.create \subseteq dep[d].existingNetworks
        /\ \E i \in 1..Len(Calls(d)) : Calls(d)[i].op = "NetworkList" /\ Calls(d)[i].ok

\* The inspects createSecrets and createConfigs made in d's run.
Inspects(d) ==
    {i \in Ops(d, {"SecretInspect", "ConfigInspect"}) : Calls(d)[i].result # ""}

ApplyOp(inspect, verb) ==
    IF inspect = "SecretInspect" THEN "Secret" \o verb ELSE "Config" \o verb

\* The names of the secrets and the configs the run wants in the cluster.
DesiredObjects(d, kind) ==
    IF kind = "Secret"
    THEN {x.Name : x \in ConvertSecrets(dep[d].opts.Stack, dep[d].project.Secrets)}
    ELSE {x.Name : x \in ConvertConfigs(dep[d].opts.Stack, dep[d].project.Configs)}

\* C13: an inspect that finds the object is followed by one update of it with
\* the inspected ID and version, an inspect that reports not-found by one
\* create, and any other inspect error ends the run with no call for the
\* object; no secret or config gets more than one mutating call, and after a
\* successful run every desired one has got one.
C13_OneCallPerObject ==
    \A d \in Deployers :
        /\ \A i \in Inspects(d) :
             LET c == Calls(d)[i]
                 last == i = Len(Calls(d))
                 next == Calls(d)[i + 1]
             IN  CASE c.result = "found" ->
                        /\ last => dep[d].pc \in {"secApply", "cfgApply"}
                        /\ ~last => /\ next.op = ApplyOp(c.op, "Update")
                                    /\ next.name = c.name
                                    /\ next.id = c.id /\ next.version = c.version
                   [] c.result = "notfound" ->
                        /\ last => dep[d].pc \in {"secApply", "cfgApply"}
                        /\ ~last => next.op = ApplyOp(c.op, "Create") /\ next.name = c.name
                   [] OTHER -> last /\ Failed(d)
        /\ \A i \in Ops(d, {"SecretUpdate", "SecretCreate", "ConfigUpdate", "ConfigCreate"}) :
             /\ i - 1 \in Inspects(d)
             /\ \A j \in Inspects(d) :
                  (Calls(d)[j].op = Calls(d)[i - 1].op /\ Calls(d)[j].name = Calls(d)[i].name)
                      => j = i - 1
        /\ Succeeded(d) =>
             /\ {Calls(d)[i].name : i \in Ops(d, {"SecretUpdate", "SecretCreate"})}
                    = DesiredObjects(d, "Secret")
             /\ {Calls(d)[i].name : i \in Ops(d, {"ConfigUpdate", "ConfigCreate"})}
                    = DesiredObjects(d, "Config")

\* C13 witness: a run that updated an object it found and then ended on the
\* error of a later inspect.
C13_Witness ==
    \E d \in Deployers :
        /\ \E i \in Inspects(d) : Calls(d)[i].result = "error" /\ Failed(d)
        /\ Ops(d, {"SecretUpdate", "ConfigUpdate"}) # {}

\* A poll that reports running tasks > 0 and >= the desired tasks.
ReportsConverged(res) ==
    ~res.failed /\ res.status /\ res.running > 0 /\ res.running >= res.desired

\* C14: the IDs are waited for in order; the first poll of an ID that reports
\* running tasks > 0 and >= the desired tasks is the last poll of that ID, and
\* once every ID has had such a poll the wait has returned nil.
C14_WaitMovesOn ==
    /\ \A i, j \in 1..Len(wait.polls) :
         i < j =>
           /\ \E a, b \in 1..Len(wait.serviceIDs) :
                /\ a <= b
                /\ wait.serviceIDs[a] = wait.polls[i].id
                /\ wait.serviceIDs[b] = wait.polls[j].id
           /\ ReportsConverged(wait.polls[i].res) => wait.polls[j].id # wait.polls[i].id
    /\ (/\ wait.pc # "idle"
        /\ \A k \in 1..Len(wait.serviceIDs) :
             \E i \in 1..Len(wait.polls) :
                 /\ wait.polls[i].id = wait.serviceIDs[k]
                 /\ ReportsConverged(wait.polls[i].res))
           => wait.pc = "returned" /\ wait.err = NoErr

\* The wait has ended on the context while a service was outstanding.
EndedOnContext ==
    /\ wait.pc = "returned"
    /\ wait.cancelled
    /\ wait.idx <= Len(wait.serviceIDs)

\* C15: a wait that the context ends while a service has not converged
\* returns an error naming the service it was waiting for.
C15_CancelNamesService ==
    EndedOnContext =>
        /\ wait.err # NoErr
        /\ wait.err.subject = wait.serviceIDs[wait.idx]

\* C16 as stated: for one logical name, two contents get the same generated
\* name iff they are equal.
C16_NameIdentifiesContent ==
    calc.fn = "hashedName" =>
        (calc.args[2] = calc.args[3] <=> calc.out[1] = calc.out[2])

\* C16: the generated name is the logical name, "_" and the first 8 hex
\* characters of the content's SHA-256; equal contents get the same name, and
\* contents whose digests differ in those 8 characters get different names.
C16_NameFollowsDigestPrefix ==
    calc.fn = "hashedName" =>
        /\ calc.out[1] = calc.args[1] \o "_" \o Sha256Hex8(calc.args[2])
        /\ calc.args[2] = calc.args[3] => calc.out[1] = calc.out[2]
        /\ Sha256Hex8(calc.args[2]) # Sha256Hex8(calc.args[3]) => calc.out[1] # calc.out[2]

\* C16 witness: two different contents under one logical name, with
\* different names.
C16_Witness ==
    /\ calc.fn = "hashedName"
    /\ calc.args[2] # calc.args[3]
    /\ calc.out[1] # calc.out[2]

\* C17: under the raw format an entry that lists no secret or more than one
\* fails, and an entry that lists one secret of the store gives the stored
\* value.
C17_RawTakesOneSecret ==
    calc.fn = "FormatSecretsForSensitive" =>
        LET needed == calc.args[1]
        IN  /\ Len(needed) # 1 => calc.out.err # ""
            /\ (Len(needed) = 1 /\ needed[1].Source \in DOMAIN VaultValues) =>
                   /\ calc.out.err = ""
                   /\ calc.out.content = VaultValues[needed[1].Source]

\* The elements of a sequence.
Range(seq) == {seq[i] : i \in 1..Len(seq)}

\* A name in the form the results carry: no blank, no lower-case letter, and
\* either ALL or with the CAP_ prefix.
NormalCap(c) ==
    /\ \A i \in 1..Len(c) : c[i] # " " /\ ToUpperChar(c[i]) = c[i]
    /\ c = AllCapabilities \/ HasPrefix(c, CapPrefix)

\* ALL is in the add list.
ALLAdded == AllCapabilities \in capabilitiesMap(calc.args[1])

CapResultsNormal ==
    /\ \A c \in Range(calc.out.capAdd) \cup Range(calc.out.capDrop) : NormalCap(c)
    /\ ALLAdded => Range(calc.out.capAdd) = {AllCapabilities}

\* C18 as stated: the results are normalized, ALL in a list makes its set
\* exactly {ALL}, and no capability of the drop list is in the add set.
C18_DropExcludesAdd ==
    calc.fn = "effectiveCapAddCapDrop" =>
        /\ CapResultsNormal
        /\ AllCapabilities \in capabilitiesMap(calc.args[2]) =>
               Range(calc.out.capDrop) = {AllCapabilities}
        /\ \A c \in capabilitiesMap(calc.args[2]) : c \notin Range(calc.out.capAdd)

\* C18: the results are normalized; ALL in the add list makes the add set
\* exactly {ALL}, otherwise the add set is the normalized add list; the drop
\* set is {ALL} when ALL is in the drop list and the normalized drop list
\* otherwise, less the capabilities of the add set: a capability in both
\* lists is added and not dropped.
C18_AddExcludesDrop ==
    calc.fn = "effectiveCapAddCapDrop" =>
        LET added == Range(calc.out.capAdd)
            dropped == Range(calc.out.capDrop)
        IN  /\ CapResultsNormal
            /\ ~ALLAdded => added = capabilitiesMap(calc.args[1])
            /\ dropped = (IF AllCapabilities \in capabilitiesMap(calc.args[2])
                          THEN {AllCapabilities}
                          ELSE capabilitiesMap(calc.args[2])) \ added

\* C18 witness: a capability given in both lists, in different spellings.
C18_Witness ==
    /\ calc.fn = "effectiveCapAddCapDrop"
    /\ \E i \in 1..Len(calc.args[1]), j \in 1..Len(calc.args[2]) :
         /\ calc.args[1][i] # calc.args[2][j]
         /\ NormalizeCap(calc.args[1][i]) = NormalizeCap(calc.args[2][j])
         /\ NormalizeCap(calc.args[1][i]) \in Range(calc.out.capAdd)
    /\ calc.out.capDrop # <<>>

\* What the legacy restart strings of the model stand for: a policy, or none
\* for a string that is malformed.
LegacyRestart(restart) ==
    CASE restart \in {RestartNone, RestartNo} -> {NoRestartPolicy}
      [] restart \in {RestartAlways, RestartUnless} ->
            {[Present |-> TRUE, Condition |-> "any", HasMax |-> FALSE, MaxAttempts |-> 0]}
      [] restart = RestartOnFailure ->
            {[Present |-> TRUE, Condition |-> "on-failure", HasMax |-> FALSE, MaxAttempts |-> 0]}
      [] restart = RestartOnFail3 ->
            {[Present |-> TRUE, Condition |-> "on-failure", HasMax |-> TRUE, MaxAttempts |-> 3]}
      [] OTHER -> {}

\* The services of d's manifest that have no structured restart policy.
LegacyServices(d) ==
    {s \in DOMAIN dep[d].manifest.Services :
        LET svc == dep[d].manifest.Services[s]
        IN  ~(svc.Deploy.Present /\ svc.Deploy.HasRestartPolicy)}

\* C19: a service without a structured restart policy is converted only if
\* its restart string is well-formed, and then to the policy the string
\* stands for; a run whose manifest has a malformed one does not succeed.
C19_LegacyRestartConverted ==
    \A d \in Deployers : \A s \in LegacyServices(d) :
        LET policies == LegacyRestart(dep[d].manifest.Services[s].Restart)
        IN  /\ s \in DOMAIN dep[d].specs => dep[d].specs[s].RestartPolicy \in policies
            /\ Succeeded(d) => policies # {}

\* C20: converting the same service under any two orders of its range
\* statements gives the same lists: whatever order a conversion met, its
\* environment, network attachments, secret and config references,
\* capabilities, ulimits, extra hosts and ports are those of every other order.
C20_ConversionDeterministic ==
    calc.fn = "convertService" =>
        \A it \in IterationOrders(calc.args[1]) :
            convertServiceLists(StackChars, calc.args[1], DeclaredNetworks,
                                DeclaredSecrets, DeclaredConfigs, LookupIDs, it) = calc.out

\* The namespace label of a spec sent is the stack of the run.
StackLabelled(d, c) ==
    LabelNamespace \in DOMAIN c.labels /\ c.labels[LabelNamespace] = dep[d].opts.Stack

\* C21: every spec sent in a create or update call, for a network, a secret,
\* a config or a service, carries the namespace label with the stack of the
\* run as its value, whatever the manifest gives for that label.
C21_SpecsCarryStackLabel ==
    \A d \in Deployers :
        \A i \in Ops(d, CreateOps \cup UpdateOps) : StackLabelled(d, Calls(d)[i])

\* C21 witness: a run of the manifest with labels of its own that sent a
\* network, a secret, a config and a service spec, each with the manifest's
\* other labels.
C21_Witness ==
    \E d \in Deployers :
        /\ dep[d].manifest = ProjectLabelled
        /\ \A k \in 1..4 :
              \E i \in Ops(d, CreateOps \cup UpdateOps) :
                  /\ KindRank(Calls(d)[i].op) = k
                  /\ "tier" \in DOMAIN Calls(d)[i].labels

\* The cluster names of the entries of a manifest map that are external, and
\* the scoped names such entries would have were they internal.
ExternalObjectNames(stack, objects) ==
    {RefName(stack, objects, n) : n \in {x \in DOMAIN objects : objects[x].External}}
ExternalNetworkNames(networks) ==
    {ExternalNetworkName(networks, n) : n \in {x \in DOMAIN networks : networks[x].External}}
ScopedExternal(stack, map) ==
    {ScopeName(stack, n) : n \in {x \in DOMAIN map : map[x].External}}

\* C22: no create or update call names an external network, secret or config
\* of the manifest, no call removes a network, a secret or a config, no call
\* at all uses the stack-scoped name of an external entry, and an external
\* network is named by the validation's inspects only.
C22_ExternalsLeftAlone ==
    \A d \in Deployers :
        LET m == dep[d].manifest
            st == dep[d].opts.Stack
        IN  \A i \in 1..Len(Calls(d)) :
                LET c == Calls(d)[i]
                IN  /\ c.op \notin {"NetworkRemove", "SecretRemove", "ConfigRemove"}
                    /\ c.name \notin ScopedExternal(st, m.Networks)
                                     \cup ScopedExternal(st, m.Secrets)
                                     \cup ScopedExternal(st, m.Configs)
                    /\ c.name \in ExternalNetworkNames(m.Networks) => c.op = "NetworkInspect"
                    /\ c.op \in {"SecretCreate", "SecretUpdate"} =>
                           c.name \notin ExternalObjectNames(st, m.Secrets)
                    /\ c.op \in {"ConfigCreate", "ConfigUpdate"} =>
                           c.name \notin ExternalObjectNames(st, m.Configs)

\* C22 witness: a successful run whose manifest has an external network, secret
\* and config: the network was inspected, the secret and the config were looked
\* up by their unscoped names, and the internal ones were created.
C22_Witness ==
    \E d \in Deployers :
        /\ Succeeded(d)
        /\ dep[d].manifest = ProjectExternal
        /\ \E i \in Ops(d, {"NetworkInspect"}) : Calls(d)[i].name = "edge"
        /\ \E i \in Ops(d, {"SecretInspect"}) : Calls(d)[i].name = "ext_tok" /\ Calls(d)[i].ok
        /\ \E i \in Ops(d, {"ConfigInspect"}) : Calls(d)[i].name = "shared_cfg" /\ Calls(d)[i].ok
        /\ \E i \in Ops(d, {"SecretCreate"}) : Calls(d)[i].name = "demo_tok"
        /\ \E i \in Ops(d, {"NetworkCreate"}) : Calls(d)[i].name = "demo_back"

\* A mount of a named volume: of type volume (or of no type) with a source.
NamedVolumeMount ==
    /\ calc.fn = "convertVolumeToMount"
    /\ calc.args[1].Type \in {"volume", ""}
    /\ calc.args[1].Source # <<>>

\* C23: a named-volume mount with an undeclared source fails; with a declared
\* external volume it succeeds with a source that does not begin with the
\* stack's prefix; with a declared internal volume that has no name of its own
\* it succeeds with the source <stack>_<source>.
C23_VolumeSourceScoped ==
    NamedVolumeMount =>
        LET src == calc.args[1].Source
        IN  IF src \notin DOMAIN DeclaredVolumes THEN calc.out.err # ""
            ELSE /\ calc.out.err = ""
                 /\ DeclaredVolumes[src].External =>
                        ~HasPrefix(calc.out.Source, StackChars \o <<"_">>)
                 /\ (~DeclaredVolumes[src].External /\ DeclaredVolumes[src].Name = <<>>) =>
                        calc.out.Source = StackChars \o <<"_">> \o src

\* C24: a remove command for the current default makes some remaining server
\* the default when one remains and clears the default when none remains; for
\* a server that is not the default it leaves the default as it was; for an
\* unknown name it fails and the stored configuration is unchanged.
C24_RemoveServerEffect ==
    [][(cli'.n # cli.n /\ cli'.op = "remove") =>
          LET c    == cli.config
              c2   == cli'.config
              name == cli'.name
              rest == DOMAIN c.Servers \ {name}
          IN  IF name \notin DOMAIN c.Servers
              THEN cli'.err # "" /\ c2 = c
              ELSE /\ cli'.err = ""
                   /\ c2.Servers = [k \in rest |-> c.Servers[k]]
                   /\ IF c.DefaultServer = name
                      THEN IF rest = {} THEN c2.DefaultServer = ""
                           ELSE c2.DefaultServer \in rest
                      ELSE c2.DefaultServer = c.DefaultServer]_vars

\* A remove command has taken the default away and named a remaining server.
C24_Witness ==
    /\ cli.op = "remove"
    /\ cli.err = ""
    /\ cli.newDefault # ""
    /\ cli.config.DefaultServer = cli.newDefault
    /\ cli.newDefault \in DOMAIN cli.config.Servers

\* The default is empty or names a stored server, and is not empty while a
\* server is stored.
DefaultWellFormed(c) ==
    /\ c.DefaultServer = "" \/ c.DefaultServer \in DOMAIN c.Servers
    /\ DOMAIN c.Servers # {} => c.DefaultServer # ""

\* C25: from the empty configuration, after any sequence of add, remove and
\* set-default commands the default is empty or the name of a stored server,
\* and is not empty while a server is stored; a set-default that fails
\* changes nothing.
C25_DefaultInvariant ==
    [][/\ DefaultWellFormed(cli'.config)
       /\ (cli'.n # cli.n /\ cli'.op = "set-default" /\ cli'.err # "") =>
              cli'.config = cli.config]_vars

\* The deployer's step sends a ServiceCreate.
SendsServiceCreate(d) ==
    /\ Len(dep'[d].calls) = Len(dep[d].calls) + 1
    /\ dep'[d].calls[Len(dep'[d].calls)].op = "ServiceCreate"

\* The specs of the run that carry the name.
SpecsNamed(d, name) ==
    {dep[d].specs[s] : s \in {t \in DOMAIN dep[d].specs : dep[d].specs[t].Name = name}}

\* Every secret and config reference of the spec names an object the cluster
\* holds, with the ID it holds it under.
ReferencesResolve(spec) ==
    /\ \A ref \in spec.Secrets :
          /\ ref.SecretName \in DOMAIN clSecrets
          /\ clSecrets[ref.SecretName].ID = ref.SecretID
    /\ \A ref \in spec.Configs :
          /\ ref.ConfigName \in DOMAIN clConfigs
          /\ clConfigs[ref.ConfigName].ID = ref.ConfigID

\* C26: at every ServiceCreate, every secret and config reference of the spec
\* sent names a secret or config that the cluster holds at that moment, and
\* carries its ID.
C26_ReferencesExistAtCreate ==
    [][\A d \in Deployers :
          SendsServiceCreate(d) =>
              \A spec \in SpecsNamed(d, dep'[d].calls[Len(dep'[d].calls)].name) :
                  ReferencesResolve(spec)]_vars

\* On a cluster that held nothing of the stack, a service with materialized
\* content has been created: its secret and its config were created earlier in
\* the same run, and the stored spec refers to both by name and ID.
C26_Witness ==
    \E d \in Deployers :
        \E i \in Ops(d, {"ServiceCreate"}) :
            /\ Calls(d)[i].ok
            /\ dep[d].manifest = ProjectSensitive
            /\ Calls(d)[i].name \in DOMAIN clServices
            /\ LET spec == clServices[Calls(d)[i].name].Spec
               IN  /\ spec.Secrets # {} /\ spec.Configs # {}
                   /\ ReferencesResolve(spec)
                   /\ \A ref \in spec.Secrets :
                         \E j \in Ops(d, {"SecretCreate"}) :
                            j < i /\ Calls(d)[j].ok /\ Calls(d)[j].name = ref.SecretName
                   /\ \A ref \in spec.Configs :
                         \E j \in Ops(d, {"ConfigCreate"}) :
                            j < i /\ Calls(d)[j].ok /\ Calls(d)[j].name = ref.ConfigName

\* The specs of the run that deployer d has sent to ServiceCreate or
\* ServiceUpdate.
SentSpecs(d) ==
    {dep[d].specs[s] : s \in {t \in DOMAIN dep[d].specs :
        \E i \in Ops(d, {"ServiceCreate", "ServiceUpdate"}) :
            Calls(d)[i].name = dep[d].specs[t].Name}}

\* C27: for every service spec Deploy sends, each network attachment target
\* is a network ConvertNetworks emitted for creation in the same run or an
\* external network that passed validation; so "<stack>_default", the target
\* of a service without networks, is among the networks created.
C27_TargetsCreatedOrExternal ==
    \A d \in Deployers :
        \A spec \in SentSpecs(d) :
            spec.Networks \subseteq DOMAIN dep[d].plan.create \cup dep[d].plan.external

\* The object carries the namespace label of the stack.
OwnedBy(stack, object) ==
    /\ LabelNamespace \in DOMAIN object.Labels
    /\ object.Labels[LabelNamespace] = stack

\* The step leaves alone every object of the map that the stack does not own.
OthersUntouched(stack, before, after) ==
    \A n \in DOMAIN before :
        ~OwnedBy(stack, before[n]) => n \in DOMAIN after /\ after[n] = before[n]

\* C28: a Deploy of the stack updates only secrets, configs and services that
\* already carry the stack's namespace label; a resource of another stack is
\* never updated or relabelled, whatever names the manifest uses.
C28_OnlyOwnResourcesUpdated ==
    [][/\ OthersUntouched(Stack, clSecrets, clSecrets')
       /\ OthersUntouched(Stack, clConfigs, clConfigs')
       /\ OthersUntouched(Stack, [n \in DOMAIN clServices |-> clServices[n].Spec],
                                 [n \in DOMAIN clServices' |-> clServices'[n].Spec])]_vars

\* The step is a poll that reported counts.
PollReported ==
    /\ Len(wait'.polls) = Len(wait.polls) + 1
    /\ ~wait'.polls[Len(wait'.polls)].res.failed
    /\ wait'.polls[Len(wait'.polls)].res.status

\* C29: for every pair of reported counts, a poll ends the wait for the
\* service exactly when running > 0 and running >= desired; so desired = 0
\* with running > 0 counts as converged.
C29_SuccessTestAsSpecified ==
    [][PollReported =>
          LET res == wait'.polls[Len(wait'.polls)].res
          IN  (wait'.idx = wait.idx + 1) <=>
                  (res.running > 0 /\ res.running >= res.desired)]_vars

\* processSensitiveSecrets has been applied to a manifest and has succeeded.
Materialized == calc.fn = "processSensitiveSecrets" /\ calc.out.err = ""

\* The name generated for entry n of the service.
GeneratedName(svc, n) ==
    hashedName(n, FormatSecretsForSensitive(SensitiveValues, svc.Sensitive[n].Secrets,
                                            svc.Sensitive[n].Format).content)

\* The positions of the references of the service whose source is the name.
RefsTo(svc, name) == {i \in 1..Len(svc.Secrets) : svc.Secrets[i].Source = name}

\* C30: materialization adds, for each sensitive entry of each service, one
\* secret to the secret map of the project and one reference to the owning
\* service, whose source is the generated name, and nothing else; after
\* conversion the reference has UID "0", GID "0" and mode 0444 where the entry
\* leaves them unset, and the values of the entry otherwise.
C30_OneSecretOneReference ==
    Materialized =>
        LET given == calc.args[1]
            after == calc.out.project
        IN  /\ DOMAIN after.Secrets =
                  DOMAIN given.Secrets \cup
                  UNION {{GeneratedName(given.Services[s], n) :
                             n \in DOMAIN given.Services[s].Sensitive} :
                         s \in DOMAIN given.Services}
            /\ \A s \in DOMAIN given.Services :
                  LET svc == given.Services[s]
                      refs == after.Services[s].Secrets
                  IN  /\ Len(refs) = Len(svc.Secrets) + Cardinality(DOMAIN svc.Sensitive)
                      /\ SubSeq(refs, 1, Len(svc.Secrets)) = svc.Secrets
                      /\ \A n \in DOMAIN svc.Sensitive :
                            LET e == svc.Sensitive[n]
                                name == GeneratedName(svc, n)
                            IN  /\ name \in DOMAIN after.Secrets
                                /\ Cardinality(RefsTo(after.Services[s], name)) = 1
                                /\ \A i \in RefsTo(after.Services[s], name) :
                                      LET file == calc.out.files[s][i]
                                      IN  /\ file.UID = IF e.UID = "" THEN "0" ELSE e.UID
                                          /\ file.GID = IF e.GID = "" THEN "0" ELSE e.GID
                                          /\ file.Mode = IF e.Mode.Set THEN e.Mode.Value
                                                         ELSE 292

\* Two services with two entries each have been materialized; one entry
\* leaves UID, GID and mode unset and another sets all three.
C30_Witness ==
    /\ Materialized
    /\ \A s \in DOMAIN calc.args[1].Services :
          Cardinality(DOMAIN calc.args[1].Services[s].Sensitive) = 2
    /\ \E s \in DOMAIN calc.args[1].Services :
          \E n \in DOMAIN calc.args[1].Services[s].Sensitive :
             LET e == calc.args[1].Services[s].Sensitive[n]
             IN  e.UID # "" /\ e.GID # "" /\ e.Mode.Set
    /\ \E s \in DOMAIN calc.out.files :
          \E i \in 1..Len(calc.out.files[s]) :
             /\ calc.out.project.Services[s].Secrets[i].Source # "tok"
             /\ calc.out.files[s][i].UID = "0"
             /\ calc.out.files[s][i].GID = "0"
             /\ calc.out.files[s][i].Mode = 292

=============================================================================
